---- MODULE Spec2Model ----
(***************************************************************************)
(* The double-buffered frame-command pipeline of crayon's graphics module: *)
(* GraphicsSystemShared (the submission facade, src/src/graphics/          *)
(* graphics.rs), Frame and DoubleFrame (src/src/graphics/backend/frame.rs) *)
(* and GraphicsSystem (the frame driver).                                  *)
(*                                                                         *)
(* Sixteen specifications share the state and the operators below:         *)
(*   Spec        one thread of control: atomic facade calls, swap_frames   *)
(*               and advance (the frame pipeline);                         *)
(*   SpecLife    atomic create / delete calls on shared Locations;         *)
(*   SpecSubmit  atomic draw-call submissions against shader state;        *)
(*   SpecFail    the calls of SpecSubmit with every failing input;         *)
(*   SpecTexture atomic texture creation and updates, by readiness;        *)
(*   SpecWindow  the driver's tick against a changing or missing window    *)
(*               and failing collaborators;                                *)
(*   SpecResize  the tick's resize test against window size and density;   *)
(*   SpecLocks   submit_drawcall, update_texture and update_vertex_buffer  *)
(*               split at their lock acquisitions, against the driver;     *)
(*   SpecLive    the same calls lock by lock, with waiting readers and     *)
(*               writers and fair scheduling of every thread;              *)
(*   SpecUpdate  buffer and texture updates, out of band and submitted;    *)
(*   SpecRegistry the handle registries under create, delete and the tick; *)
(*   SpecTargets the creators of unique resources, framebuffer attachments *)
(*               and deletes, against a device that may fail;              *)
(*   SpecCreate  concurrent create calls on one shared Location;           *)
(*   SpecTokens  staging into the arena and the push, as separate steps;   *)
(*   SpecFactory the built-in shader and mesh factories and deletes;       *)
(*   ConcSpec    several producer threads, each call split at its lock     *)
(*               acquisitions, and the driver stepping through advance.    *)
(***************************************************************************)
EXTENDS Integers, Sequences, FiniteSets, TLC

\* ------------------------------------------------------------------ bounds
NumProducers == 2
MaxHandles == 2
MaxCalls == 4
MaxTicks == 1
MaxSwaps == 2
MaxUniforms == 2
MaxBytes == 2

\* ---------------------------------------------------------------- universes
Driver == 0
Producers == 1..NumProducers
Threads == {Driver} \cup Producers
FrameIds == {0, 1}
NoFrame == 2

Kinds == {"surface", "shader", "framebuffer", "render_buffer", "mesh", "texture"}
SharedKinds == {"shader", "mesh", "texture"}
Unique == "unique"
SharedLocations == {"L1"}
Handles == 1..MaxHandles
OrderKeys == {3, 5}

\* Uniform names appear in the facade as HashValue<str>; NameHash is the
\* (collision-free on this universe) hash of a declared name.
UniformNames == {"u_a", "u_b", "u_c"}
UniformTypes == {"F", "M"}
NameHash(name) == CASE name = "u_a" -> 11 [] name = "u_b" -> 12 [] name = "u_c" -> 13
\* The (name hash, value) pairs a draw call may supply; a value is its type tag.
DrawUniforms == {<<NameHash(n), ty>> : n \in {"u_a", "u_b"}, ty \in UniformTypes}
RECURSIVE SeqsUpTo(_, _)
SeqsUpTo(S, n) ==
    IF n = 0 THEN {<<>>}
    ELSE SeqsUpTo(S, n - 1) \cup {Append(q, x) : q \in SeqsUpTo(S, n - 1), x \in S}
UniformLists == SeqsUpTo(DrawUniforms, MaxUniforms)

\* graphics::MAX_UNIFORM_VARIABLES, scaled to the name universe.
MAX_UNIFORM_VARIABLES == 2
ShaderSetups ==
    { [vs |-> 1, fs |-> 1, uniform_variables |-> [n \in {"u_a"} |-> "F"]],
      [vs |-> 1, fs |-> 1, uniform_variables |-> [n \in {"u_a", "u_b"} |-> IF n = "u_a" THEN "F" ELSE "M"]],
      [vs |-> 0, fs |-> 1, uniform_variables |-> [n \in {"u_a"} |-> "F"]],
      [vs |-> 1, fs |-> 0, uniform_variables |-> [n \in {"u_a"} |-> "F"]],
      [vs |-> 1, fs |-> 1, uniform_variables |-> [n \in UniformNames |-> "F"]] }

\* MeshSetup: the buffer lengths it declares and the verdict of validate().
MeshSetups == { [vertex_buffer_len |-> 1, index_buffer_len |-> 1, valid |-> TRUE],
                [vertex_buffer_len |-> 1, index_buffer_len |-> 1, valid |-> FALSE] }
\* Option<&[u8]>: <<>> is None, <<n>> is Some(span of n bytes).
ByteSpans == {<<>>} \cup {<<n>> : n \in 1..MaxBytes}

\* FrameBufferSetup::attachments(): one Option<FrameBufferAttachment> per
\* attachment slot, <<>> for None and <<attachment>> for Some.
MAX_ATTACHMENTS == 3
FrameBufferAttachment(kind, h) == [kind |-> kind, h |-> h]
NoAttachment == <<>>
RenderBufferAt(h) == <<FrameBufferAttachment("RenderBuffer", h)>>
TextureAt(h) == <<FrameBufferAttachment("Texture", h)>>
\* Setups with no attachment, with the first slot empty and with an empty
\* slot between two attachments.
FrameBufferSetups ==
    { <<NoAttachment, NoAttachment, NoAttachment>>,
      <<NoAttachment, RenderBufferAt(1), TextureAt(1)>>,
      <<TextureAt(1), NoAttachment, RenderBufferAt(2)>> }

VARIABLES
    idx,        \* DoubleFrame.idx
    frames,     \* DoubleFrame.frames: [FrameIds -> Frame]
    guard,      \* MutexGuard<Frame> held by each thread (NoFrame: none)
    poisoned,   \* frames whose Mutex is poisoned (a holder panicked)
    idxReaders, \* threads holding DoubleFrame.idx.read()
    regs,       \* GraphicsSystemShared.{surfaces, shaders, ...}
    pc,         \* position of each producer inside its call
    call,       \* the arguments and locals of each producer's call
    ret,        \* what each producer's last call returned
    dpc,        \* position of the driver
    dret,       \* what the driver's last advance returned
    devLog,     \* device calls of the current dispatch, in call order
    dev,        \* device-side resource status
    snap,       \* history: the back Frame as it was when dispatch began
    life,       \* history: per handle, calls made and tasks pushed
    cadence,    \* history: "swapped" right after a swap, "advanced" after the one
                \* advance that followed it, "irregular" once the gap between
                \* two swaps did not hold exactly one advance
    hist,       \* history: when the tasks each Frame holds were appended, which
                \* Frame was front before the last swap, whether an advance failed
    dimensions, \* GraphicsSystemShared.dimensions: (dimensions, dimensions_in_pixels)
    tickLog,    \* calls the last advance made outside Frame::dispatch, in call order
    last,       \* GraphicsSystem.last_dimensions and last_hidpi
    resized,    \* history: the argument of the window.resize call of the last
                \* advance, <<>> when it made none
    ncalls, nticks, nswaps

vars == <<idx, frames, guard, poisoned, idxReaders, regs, pc, call,
          ret, dpc, dret, devLog, dev, snap, life, cadence, hist, dimensions, tickLog,
          last, resized,
          ncalls, nticks, nswaps>>

\* ----------------------------------------------------------- Handle Registry
\* resource::Registery<T>: a slot table with reference counts; a handle is
\* the number of its slot and is never reissued.
EmptyRegistry == [slots |-> <<>>, n |-> 0]

RegLive(r) == {h \in DOMAIN r.slots : r.slots[h].live}

RegIsAlive(r, h) == h \in DOMAIN r.slots /\ r.slots[h].live

RegLookup(r, loc) ==
    IF loc # Unique /\ \E h \in RegLive(r) : r.slots[h].loc = loc
    THEN CHOOSE h \in RegLive(r) : r.slots[h].loc = loc
    ELSE 0

RegIncRc(r, h) ==
    IF RegIsAlive(r, h)
    THEN [r EXCEPT !.slots[h].rc = @ + 1]
    ELSE r

RegCreate(r, loc, st) ==
    IF RegLookup(r, loc) # 0
    THEN [reg |-> RegIncRc(r, RegLookup(r, loc)), h |-> RegLookup(r, loc)]
    ELSE [reg |-> [slots |-> (r.n + 1) :> [rc |-> 1, loc |-> loc, st |-> st, live |-> TRUE]
                             @@ r.slots,
                   n |-> r.n + 1],
          h |-> r.n + 1]

\* dec_rc that leaves the slot alive when its count reaches zero.
RegDecRcKeepsSlot(r, h, allow_delete) ==
    IF ~RegIsAlive(r, h)
    THEN [reg |-> r, removed |-> FALSE]
    ELSE [reg |-> [r EXCEPT !.slots[h].rc = @ - 1],
          removed |-> r.slots[h].rc - 1 = 0 /\ allow_delete]

\* dec_rc that does not test whether the slot is alive.
RegDecRcBlind(r, h, allow_delete) ==
    IF h \notin DOMAIN r.slots
    THEN [reg |-> r, removed |-> FALSE]
    ELSE IF r.slots[h].rc - 1 <= 0 /\ allow_delete
         THEN [reg |-> [r EXCEPT !.slots[h].rc = @ - 1, !.slots[h].live = FALSE],
               removed |-> TRUE]
         ELSE [reg |-> [r EXCEPT !.slots[h].rc = @ - 1], removed |-> FALSE]

RegDecRc(r, h, allow_delete) ==
    IF ~RegIsAlive(r, h)
    THEN [reg |-> r, removed |-> FALSE]
    ELSE IF r.slots[h].rc - 1 = 0 /\ allow_delete
         THEN [reg |-> [r EXCEPT !.slots[h].rc = 0, !.slots[h].live = FALSE],
               removed |-> TRUE]
         ELSE [reg |-> [r EXCEPT !.slots[h].rc = @ - 1], removed |-> FALSE]

RegGet(r, h) == r.slots[h].st

RegClear(r) == [r EXCEPT !.slots = [h \in RegLive(r) |-> r.slots[h]]]

\* ------------------------------------------------------------ Staging Arena
\* utils::DataBuffer: an append-only buffer of cells; a token (DataBufferPtr)
\* is an offset and a length.
ByteCell == [c |-> "byte", n |-> 0, v |-> "", off |-> 0, len |-> 0]
ValueCell(ty) == [c |-> "val", n |-> 0, v |-> ty, off |-> 0, len |-> 0]
PairCell(n, ptr) == [c |-> "pair", n |-> n, v |-> "", off |-> ptr.off, len |-> ptr.len]
Bytes(n) == [i \in 1..n |-> ByteCell]

BufExtend(buf, cell) == [buf |-> Append(buf, cell), ptr |-> [off |-> Len(buf), len |-> 1]]

BufExtendFromSlice(buf, cells) ==
    [buf |-> buf \o cells, ptr |-> [off |-> Len(buf), len |-> Len(cells)]]

BufAsSlice(buf, ptr) == SubSeq(buf, ptr.off + 1, ptr.off + ptr.len)

\* -------------------------------------------------------------------- Frame
EmptyFrame == [pre |-> <<>>, tasks |-> <<>>, post |-> <<>>, buf |-> <<>>]

FrameClear(f) == [pre |-> <<>>, tasks |-> <<>>, post |-> <<>>, buf |-> <<>>]

\* PreFrameTask, FrameTask and PostFrameTask; ptrs holds the task's tokens.
\* att holds the attachments of a CreateFrameBuffer task's setup.
PreTask(t, k, h, ptrs) == [t |-> t, k |-> k, h |-> h, ptrs |-> ptrs, att |-> <<>>]
\* PreFrameTask::CreateFrameBuffer(handle, setup).
FrameBufferTask(h, setup) ==
    [PreTask("CreateFrameBuffer", "framebuffer", h, <<>>) EXCEPT !.att = setup]
PostTask(t, k, h) == [t |-> t, k |-> k, h |-> h]
OrderedTask(s, o, t, shader, k, h, ptr) ==
    [s |-> s, o |-> o, t |-> t, shader |-> shader, k |-> k, h |-> h, ptr |-> ptr]

CreateTaskName(k) ==
    CASE k = "surface" -> "CreateSurface"
      [] k = "shader" -> "CreatePipeline"
      [] k = "framebuffer" -> "CreateFrameBuffer"
      [] k = "render_buffer" -> "CreateRenderBuffer"
      [] k = "mesh" -> "CreateMesh"
      [] k = "texture" -> "CreateTexture"

\* The PreFrameTask variants that create a resource of kind k.
CreateTaskNames(k) ==
    IF k = "texture" THEN {"CreateTexture", "CreateRenderTexture"} ELSE {CreateTaskName(k)}

DeleteTaskName(k) ==
    CASE k = "surface" -> "DeleteSurface"
      [] k = "shader" -> "DeletePipeline"
      [] k = "framebuffer" -> "DeleteFrameBuffer"
      [] k = "render_buffer" -> "DeleteRenderBuffer"
      [] k = "mesh" -> "DeleteMesh"
      [] k = "texture" -> "DeleteTexture"

\* -------------------------------------------------------------- DoubleFrame
FrontIndex == idx
BackIndex == (idx + 1) % 2
Holders(f) == {t \in Threads : guard[t] = f}
\* A lock that never waits for the holder of the guard.
CanLockAlways(f) == f \in FrameIds
CanLock(f) == Holders(f) = {}

\* ------------------------------------------------------------------ results
Ok(op, h) == [op |-> op, tag |-> "Ok", h |-> h, msg |-> ""]
Err(op, msg) == [op |-> op, tag |-> "Err", h |-> 0, msg |-> msg]
Panic(op, msg) == [op |-> op, tag |-> "Panic", h |-> 0, msg |-> msg]
NoRet == [op |-> "", tag |-> "", h |-> 0, msg |-> ""]

\* The arguments and locals a producer keeps between the steps of one call:
\* the handle it works on, the submit arguments, the byte spans to stage and
\* the frame index that front() read; for a draw call spans holds its uniforms.
NoCall == [op |-> "", k |-> "", h |-> 0, s |-> 0, o |-> 0, n |-> 0, spans |-> <<>>, f |-> NoFrame]
NewCall(op, k, h, s, o, n, spans) ==
    [op |-> op, k |-> k, h |-> h, s |-> s, o |-> o, n |-> n, spans |-> spans, f |-> NoFrame]

NoLife == [creates |-> 0, deletes |-> 0, pres |-> 0, posts |-> 0]

\* hist.born[f]: the values nswaps had when the tasks now in Frame f were appended.
NoHist == [born |-> [f \in FrameIds |-> {}], wasFront |-> NoFrame, failed |-> FALSE]

\* window::Window as advance reads it: Option<(u32, u32)> for each of the two
\* queries, <<>> for None and <<size>> for Some.
WindowSizes == {1, 2}
OptionSizes == {<<>>} \cup {<<n>> : n \in WindowSizes}
HidpiFactors == {1, 2}
\* Windows of one pixel density, and windows whose density changes too.
Windows == [dimensions : OptionSizes, dimensions_in_pixels : OptionSizes, hidpi : {1}]
HidpiWindows ==
    [dimensions : OptionSizes, dimensions_in_pixels : OptionSizes, hidpi : HidpiFactors]
\* The window as GraphicsSystem::new found it.
SteadyWindow == [dimensions |-> <<1>>, dimensions_in_pixels |-> <<1>>, hidpi |-> 1]

Init ==
    /\ idx = 0
    /\ frames = [f \in FrameIds |-> EmptyFrame]
    /\ guard = [t \in Threads |-> NoFrame]
    /\ poisoned = {}
    /\ idxReaders = {}
    /\ regs = [k \in Kinds |-> EmptyRegistry]
    /\ pc = [p \in Producers |-> "idle"]
    /\ call = [p \in Producers |-> NoCall]
    /\ ret = [p \in Producers |-> NoRet]
    /\ dpc = "idle"
    /\ dret = NoRet
    /\ devLog = <<>>
    /\ dev = [k \in Kinds |-> [created |-> {}, deleted |-> {}]]
    /\ snap = EmptyFrame
    /\ life = [k \in Kinds |-> [h \in Handles |-> NoLife]]
    /\ cadence = "swapped"
    /\ hist = NoHist
    /\ dimensions = <<SteadyWindow.dimensions[1], SteadyWindow.dimensions_in_pixels[1]>>
    /\ tickLog = <<>>
    /\ last = [dimensions |-> SteadyWindow.dimensions[1], hidpi |-> SteadyWindow.hidpi]
    /\ resized = <<>>
    /\ ncalls = 0
    /\ nticks = 0
    /\ nswaps = 0

\* =================================================== Submission Facade (atomic)
\* Each operator gives the outcome of one whole call made in the current
\* state: the registries and frames after it, what it returned, whether the
\* caller panicked while holding the front guard.
Outcome(r, f, res, poison) ==
    [regs |-> r, frames |-> f, res |-> res, poison |-> poison]

FrontPoisoned == FrontIndex \in poisoned
PoisonMsg == "PoisonError"

PushPre(f, task) == [f EXCEPT !.pre = Append(@, task)]
PushTask(f, task) == [f EXCEPT !.tasks = Append(@, task)]
PushPost(f, task) == [f EXCEPT !.post = Append(@, task)]

\* A creator of unique resources that registers under one shared Location.
CreateUniqueDeduplicated(op, k, t, setup) ==
    LET c == RegCreate(regs[k], "L1", "Ready")
        r == [regs EXCEPT ![k] = c.reg]
    IN  IF FrontPoisoned
        THEN Outcome(r, frames, Panic(op, PoisonMsg), FALSE)
        ELSE Outcome(r,
                     [frames EXCEPT ![FrontIndex] =
                         PushPre(@, [PreTask(t, k, c.h, <<>>) EXCEPT !.att = setup])],
                     Ok(op, c.h), FALSE)

\* The creators of unique resources: Location::unique(""), create under the
\* registry's write guard, one pre-task t pushed to the front Frame.
CreateUniqueWith(op, k, t, setup) ==
    LET c == RegCreate(regs[k], Unique, "Ready")
        r == [regs EXCEPT ![k] = c.reg]
    IN  IF FrontPoisoned
        THEN Outcome(r, frames, Panic(op, PoisonMsg), FALSE)
        ELSE Outcome(r,
                     [frames EXCEPT ![FrontIndex] =
                         PushPre(@, [PreTask(t, k, c.h, <<>>) EXCEPT !.att = setup])],
                     Ok(op, c.h), FALSE)

\* create_surface (and the other creators of unique resources).
CreateUniqueOutcome(op, k) == CreateUniqueWith(op, k, CreateTaskName(k), <<>>)

CreateFrameBufferOutcome(setup) ==
    CreateUniqueWith("create_framebuffer", "framebuffer", "CreateFrameBuffer", setup)

CreateRenderBufferOutcome == CreateUniqueOutcome("create_render_buffer", "render_buffer")

\* A render texture lives in the textures registry, its state Ready at once.
CreateRenderTextureOutcome ==
    CreateUniqueWith("create_render_texture", "texture", "CreateRenderTexture", <<>>)

\* DeleteOutcome with the post-task pushed whether or not dec_rc removed the slot.
DeleteOutcomeAlwaysPush(k, h) ==
    LET d == RegDecRc(regs[k], h, TRUE)
        r == [regs EXCEPT ![k] = d.reg]
    IN  Outcome(r,
                [frames EXCEPT ![FrontIndex] = PushPost(@, PostTask(DeleteTaskName(k), k, h))],
                Ok("delete", 0), FALSE)

\* delete_surface, delete_shader, delete_framebuffer, delete_render_buffer,
\* delete_mesh, delete_texture.
DeleteOutcome(k, h) ==
    LET d == RegDecRc(regs[k], h, TRUE)
        r == [regs EXCEPT ![k] = d.reg]
        op == "delete"
    IN  IF ~d.removed
        THEN Outcome(r, frames, Ok(op, 0), FALSE)
        ELSE IF FrontPoisoned
             THEN Outcome(r, frames, Panic(op, PoisonMsg), FALSE)
             ELSE Outcome(r,
                          [frames EXCEPT ![FrontIndex] =
                              PushPost(@, PostTask(DeleteTaskName(k), k, h))],
                          Ok(op, 0), FALSE)

\* ShaderState built by create_shader from the setup.
ShaderStateOf(setup) ==
    LET names == DOMAIN setup.uniform_variables
        byHash(k) == CHOOSE n \in names : NameHash(n) = k
    IN  [uniform_variables |->
            [k \in {NameHash(n) : n \in names} |-> setup.uniform_variables[byHash(k)]],
         uniform_variable_names |->
            [k \in {NameHash(n) : n \in names} |-> byHash(k)]]

\* The checks of create_shader with the cap test on >= instead of >.
ShaderSetupErrorAtCap(setup) ==
    IF Cardinality(DOMAIN setup.uniform_variables) >= MAX_UNIFORM_VARIABLES
    THEN "Too many uniform variables"
    ELSE IF setup.vs = 0
         THEN "Vertex shader is required"
         ELSE IF setup.fs = 0
              THEN "Fragment shader is required"
              ELSE ""

ShaderSetupError(setup) ==
    IF Cardinality(DOMAIN setup.uniform_variables) > MAX_UNIFORM_VARIABLES
    THEN "Too many uniform variables"
    ELSE IF setup.vs = 0
         THEN "Vertex shader is required"
         ELSE IF setup.fs = 0
              THEN "Fragment shader is required"
              ELSE ""

\* CreateShared without the lookup: every call creates a new slot.
CreateSharedNoLookup(r, loc, st) ==
    [reg |-> RegCreate(r, loc, st).reg, h |-> RegCreate(r, loc, st).h, fresh |-> TRUE]

\* CreateShared whose lookup hit returns the handle without inc_rc.
CreateSharedNoIncRc(r, loc, st) ==
    IF RegLookup(r, loc) # 0
    THEN [reg |-> r, h |-> RegLookup(r, loc), fresh |-> FALSE]
    ELSE [reg |-> RegCreate(r, loc, st).reg, h |-> RegCreate(r, loc, st).h, fresh |-> TRUE]

\* The block of create_* that holds the registry's write guard.
CreateShared(r, loc, st) ==
    IF RegLookup(r, loc) # 0
    THEN [reg |-> RegIncRc(r, RegLookup(r, loc)), h |-> RegLookup(r, loc), fresh |-> FALSE]
    ELSE [reg |-> RegCreate(r, loc, st).reg, h |-> RegCreate(r, loc, st).h, fresh |-> TRUE]

CreateShaderOutcome(loc, setup) ==
    LET op == "create_shader"
        c == CreateShared(regs["shader"], loc, ShaderStateOf(setup))
        r == [regs EXCEPT !["shader"] = c.reg]
    IN  IF ShaderSetupError(setup) # ""
        THEN Outcome(regs, frames, Err(op, ShaderSetupError(setup)), FALSE)
        ELSE IF ~c.fresh
             THEN Outcome(r, frames, Ok(op, c.h), FALSE)
             ELSE IF FrontPoisoned
                  THEN Outcome(r, frames, Panic(op, PoisonMsg), FALSE)
                  ELSE Outcome(r,
                               [frames EXCEPT ![FrontIndex] =
                                   PushPre(@, PreTask("CreatePipeline", "shader", c.h, <<>>))],
                               Ok(op, c.h), FALSE)

\* Stage the optional byte spans one after the other; ptrs collects, per
\* span, <<>> for None or <<token>> for Some.
RECURSIVE StageSpans(_, _, _)
StageSpans(buf, spans, ptrs) ==
    IF spans = <<>>
    THEN [buf |-> buf, ptrs |-> ptrs]
    ELSE IF Head(spans) = <<>>
         THEN StageSpans(buf, Tail(spans), Append(ptrs, <<>>))
         ELSE LET e == BufExtendFromSlice(buf, Bytes(Head(spans)[1]))
              IN  StageSpans(e.buf, Tail(spans), Append(ptrs, <<e.ptr>>))

\* create_mesh's checks without the two span comparisons.
MeshValidateOnly(setup, verts, idxes) ==
    IF ~setup.valid THEN "Invalid mesh setup" ELSE ""

MeshBoundsError(setup, verts, idxes) ==
    IF verts # <<>> /\ verts[1] > setup.vertex_buffer_len
    THEN "Out of bounds!"
    ELSE IF idxes # <<>> /\ idxes[1] > setup.index_buffer_len
         THEN "Out of bounds!"
         ELSE IF ~setup.valid
              THEN "Invalid mesh setup"
              ELSE ""

\* The tail of create_mesh / create_texture: under one front guard, stage the
\* spans and push the creation pre-task.
PushCreateWithSpans(f, t, k, h, spans) ==
    LET s == StageSpans(f.buf, spans, <<>>)
    IN  PushPre([f EXCEPT !.buf = s.buf], PreTask(t, k, h, s.ptrs))

CreateMeshOutcome(loc, setup, verts, idxes) ==
    LET op == "create_mesh"
        c == CreateShared(regs["mesh"], loc, "Ready")
        r == [regs EXCEPT !["mesh"] = c.reg]
    IN  IF MeshBoundsError(setup, verts, idxes) # ""
        THEN Outcome(regs, frames, Err(op, MeshBoundsError(setup, verts, idxes)), FALSE)
        ELSE IF ~c.fresh
             THEN Outcome(r, frames, Ok(op, c.h), FALSE)
             ELSE IF FrontPoisoned
                  THEN Outcome(r, frames, Panic(op, PoisonMsg), FALSE)
                  ELSE Outcome(r,
                               [frames EXCEPT ![FrontIndex] =
                                   PushCreateWithSpans(@, "CreateMesh", "mesh", c.h, <<verts, idxes>>)],
                               Ok(op, c.h), FALSE)

CreateTextureOutcome(loc, data) ==
    LET op == "create_texture"
        c == CreateShared(regs["texture"], loc, "Ready")
        r == [regs EXCEPT !["texture"] = c.reg]
    IN  IF ~c.fresh
        THEN Outcome(r, frames, Ok(op, c.h), FALSE)
        ELSE IF FrontPoisoned
             THEN Outcome(r, frames, Panic(op, PoisonMsg), FALSE)
             ELSE Outcome(r,
                          [frames EXCEPT ![FrontIndex] =
                              PushCreateWithSpans(@, "CreateTexture", "texture", c.h, <<data>>)],
                          Ok(op, c.h), FALSE)

\* create_texture_from: the slot starts NotReady and the loader, not this
\* call, pushes the creation pre-task once the resource is loaded.
CreateTextureFromOutcome(loc) ==
    LET c == CreateShared(regs["texture"], loc, "NotReady")
    IN  Outcome([regs EXCEPT !["texture"] = c.reg], frames, Ok("create_texture_from", c.h), FALSE)

\* The validate-and-pack loop of submit_drawcall over the supplied uniforms.
\* uniform_variable_names[&n] indexes a HashMap: it panics on a missing key.
RECURSIVE PackUniforms(_, _, _, _)
PackUniforms(shader, uniforms, buf, pack) ==
    IF uniforms = <<>>
    THEN [tag |-> "Ok", msg |-> "", buf |-> buf, pack |-> pack]
    ELSE LET n == Head(uniforms)[1]
             v == Head(uniforms)[2]
         IN  IF n \in DOMAIN shader.uniform_variables
             THEN IF shader.uniform_variables[n] = v
                  THEN LET e == BufExtend(buf, ValueCell(v))
                       IN  PackUniforms(shader, Tail(uniforms), e.buf,
                                        Append(pack, PairCell(n, e.ptr)))
                  ELSE IF n \in DOMAIN shader.uniform_variable_names
                       THEN [tag |-> "Err", msg |-> "Unmatched uniform variable",
                             buf |-> buf, pack |-> pack]
                       ELSE [tag |-> "Panic", msg |-> "no entry found for key",
                             buf |-> buf, pack |-> pack]
             ELSE IF n \in DOMAIN shader.uniform_variable_names
                  THEN [tag |-> "Err", msg |-> "Undefined uniform variable",
                        buf |-> buf, pack |-> pack]
                  ELSE [tag |-> "Panic", msg |-> "no entry found for key",
                        buf |-> buf, pack |-> pack]

\* DrawcallOnFrame with the draw task pushed although validation failed.
DrawcallOnFramePushAnyway(f, r, s, o, dc) ==
    IF ~RegIsAlive(r["shader"], dc.shader)
    THEN [frame |-> f, tag |-> "Err", msg |-> "Undefined shader state handle."]
    ELSE LET pk == PackUniforms(RegGet(r["shader"], dc.shader), dc.uniforms, f.buf, <<>>)
             e == BufExtendFromSlice(pk.buf, pk.pack)
         IN  [frame |-> PushTask([f EXCEPT !.buf = e.buf],
                                 OrderedTask(s, o, "DrawCall", dc.shader, "mesh",
                                             dc.mesh, e.ptr)),
              tag |-> pk.tag, msg |-> pk.msg]

\* submit_drawcall from the point where it holds the front guard f.
DrawcallOnFrame(f, r, s, o, dc) ==
    IF ~RegIsAlive(r["shader"], dc.shader)
    THEN [frame |-> f, tag |-> "Err", msg |-> "Undefined shader state handle."]
    ELSE LET pk == PackUniforms(RegGet(r["shader"], dc.shader), dc.uniforms, f.buf, <<>>)
             e == BufExtendFromSlice(pk.buf, pk.pack)
         IN  IF pk.tag # "Ok"
             THEN [frame |-> [f EXCEPT !.buf = pk.buf], tag |-> pk.tag, msg |-> pk.msg]
             ELSE [frame |-> PushTask([f EXCEPT !.buf = e.buf],
                                      OrderedTask(s, o, "DrawCall", dc.shader, "mesh",
                                                  dc.mesh, e.ptr)),
                   tag |-> "Ok", msg |-> ""]

SubmitDrawcallOutcome(s, o, dc) ==
    LET op == "submit_drawcall"
        d == DrawcallOnFrame(frames[FrontIndex], regs, s, o, dc)
        f == [frames EXCEPT ![FrontIndex] = d.frame]
    IN  IF ~RegIsAlive(regs["surface"], s)
        THEN Outcome(regs, frames, Err(op, "Undefined surface handle."), FALSE)
        ELSE IF ~RegIsAlive(regs["mesh"], dc.mesh)
             THEN Outcome(regs, frames, Err(op, "Undefined mesh handle."), FALSE)
             ELSE IF FrontPoisoned
                  THEN Outcome(regs, frames, Panic(op, PoisonMsg), FALSE)
                  ELSE IF d.tag = "Ok"
                       THEN Outcome(regs, f, Ok(op, 0), FALSE)
                       ELSE IF d.tag = "Err"
                            THEN Outcome(regs, f, Err(op, d.msg), FALSE)
                            ELSE Outcome(regs, f, Panic(op, d.msg), TRUE)

\* The tail of the buffer/texture updates: stage the bytes and push the task
\* under one front guard.
UpdateOnFrame(f, s, o, t, k, h, n) ==
    LET e == BufExtendFromSlice(f.buf, Bytes(n))
    IN  PushTask([f EXCEPT !.buf = e.buf], OrderedTask(s, o, t, 0, k, h, e.ptr))

\* submit(VertexBufferUpdate) and submit(IndexBufferUpdate).
SubmitUpdateBufferOutcome(t, s, o, mesh, n) ==
    LET op == "submit_update_buffer"
    IN  IF ~RegIsAlive(regs["surface"], s)
        THEN Outcome(regs, frames, Err(op, "Undefined surface handle."), FALSE)
        ELSE IF ~RegIsAlive(regs["mesh"], mesh)
             THEN Outcome(regs, frames, Err(op, "InvalidHandle"), FALSE)
             ELSE IF FrontPoisoned
                  THEN Outcome(regs, frames, Panic(op, PoisonMsg), FALSE)
                  ELSE Outcome(regs,
                               [frames EXCEPT ![FrontIndex] =
                                   UpdateOnFrame(@, s, o, t, "mesh", mesh, n)],
                               Ok(op, 0), FALSE)

\* submit(TextureUpdate): a texture that is not Ready is skipped silently.
SubmitUpdateTextureOutcome(s, o, texture, n) ==
    LET op == "submit_update_texture"
    IN  IF ~RegIsAlive(regs["surface"], s)
        THEN Outcome(regs, frames, Err(op, "Undefined surface handle."), FALSE)
        ELSE IF ~RegIsAlive(regs["texture"], texture)
             THEN Outcome(regs, frames, Err(op, "InvalidHandle"), FALSE)
             ELSE IF RegGet(regs["texture"], texture) # "Ready"
                  THEN Outcome(regs, frames, Ok(op, 0), FALSE)
                  ELSE IF FrontPoisoned
                       THEN Outcome(regs, frames, Panic(op, PoisonMsg), FALSE)
                       ELSE Outcome(regs,
                                    [frames EXCEPT ![FrontIndex] =
                                        UpdateOnFrame(@, s, o, "UpdateTexture", "texture",
                                                      texture, n)],
                                    Ok(op, 0), FALSE)

\* An out-of-band update pushed as an ordered task with the smallest key.
UpdatePreAsOrdered(f, t, k, h, n) ==
    LET e == BufExtendFromSlice(f.buf, Bytes(n))
    IN  PushTask([f EXCEPT !.buf = e.buf], OrderedTask(0, 0, t, 0, k, h, e.ptr))

\* The out-of-band updates push a pre-task instead of an ordered task.
UpdatePreOnFrame(f, t, k, h, n) ==
    LET e == BufExtendFromSlice(f.buf, Bytes(n))
    IN  PushPre([f EXCEPT !.buf = e.buf], PreTask(t, k, h, <<<<e.ptr>>>>))

\* update_vertex_buffer and update_index_buffer.
UpdateBufferOutcome(t, mesh, n) ==
    LET op == "update_buffer"
    IN  IF ~RegIsAlive(regs["mesh"], mesh)
        THEN Outcome(regs, frames, Err(op, "InvalidHandle"), FALSE)
        ELSE IF FrontPoisoned
             THEN Outcome(regs, frames, Panic(op, PoisonMsg), FALSE)
             ELSE Outcome(regs,
                          [frames EXCEPT ![FrontIndex] = UpdatePreOnFrame(@, t, "mesh", mesh, n)],
                          Ok(op, 0), FALSE)

\* UpdateTextureOutcome without the readiness test.
UpdateTextureOutcomeAnyState(texture, n) ==
    IF ~RegIsAlive(regs["texture"], texture)
    THEN Outcome(regs, frames, Err("update_texture", "InvalidHandle"), FALSE)
    ELSE Outcome(regs,
                 [frames EXCEPT ![FrontIndex] =
                     UpdatePreOnFrame(@, "UpdateTexture", "texture", texture, n)],
                 Ok("update_texture", 0), FALSE)

UpdateTextureOutcome(texture, n) ==
    LET op == "update_texture"
    IN  IF ~RegIsAlive(regs["texture"], texture)
        THEN Outcome(regs, frames, Err(op, "InvalidHandle"), FALSE)
        ELSE IF RegGet(regs["texture"], texture) # "Ready"
             THEN Outcome(regs, frames, Ok(op, 0), FALSE)
             ELSE IF FrontPoisoned
                  THEN Outcome(regs, frames, Panic(op, PoisonMsg), FALSE)
                  ELSE Outcome(regs,
                               [frames EXCEPT ![FrontIndex] =
                                   UpdatePreOnFrame(@, "UpdateTexture", "texture", texture, n)],
                               Ok(op, 0), FALSE)

\* submit(SetScissor).
SubmitSetScissorOutcome(s, o) ==
    LET op == "submit_set_scissor"
    IN  IF ~RegIsAlive(regs["surface"], s)
        THEN Outcome(regs, frames, Err(op, "Undefined surface handle."), FALSE)
        ELSE IF FrontPoisoned
             THEN Outcome(regs, frames, Panic(op, PoisonMsg), FALSE)
             ELSE Outcome(regs,
                          [frames EXCEPT ![FrontIndex] =
                              PushTask(@, OrderedTask(s, o, "UpdateSurface", 0, "surface", s,
                                                      [off |-> 0, len |-> 0]))],
                          Ok(op, 0), FALSE)

\* ----------------------------------------- atomic calls (one thread of control)
\* In Spec one thread makes the facade calls and drives the ticks; a panic
\* unwinds it and the run ends.
Caller == 1

CanCall(p) == pc[p] = "idle" /\ ncalls < MaxCalls /\ CanLock(FrontIndex)

\* History bookkeeping: the creation pre-tasks and deletion post-tasks for
\* (k, h) that a call appended to the front Frame, read off the Frame.
Added(f, g, list, k, h, names) ==
    Cardinality({i \in DOMAIN g[list] : g[list][i].k = k /\ g[list][i].h = h
                                         /\ g[list][i].t \in names})
    - Cardinality({i \in DOMAIN f[list] : f[list][i].k = k /\ f[list][i].h = h
                                           /\ f[list][i].t \in names})

LifeAfter(k, h, out, field) ==
    [life EXCEPT ![k][h] =
        [creates |-> @.creates + (IF field = "creates" THEN 1 ELSE 0),
         deletes |-> @.deletes + (IF field = "deletes" THEN 1 ELSE 0),
         pres |-> @.pres + Added(frames[FrontIndex], out.frames[FrontIndex], "pre", k, h,
                                 CreateTaskNames(k)),
         posts |-> @.posts + Added(frames[FrontIndex], out.frames[FrontIndex], "post", k, h,
                                   {DeleteTaskName(k)})]]

\* A create call that returned handle h counts as one create of h.
LifeCreate(k, out) ==
    IF out.res.tag = "Ok" /\ out.res.h \in Handles
    THEN LifeAfter(k, out.res.h, out, "creates")
    ELSE life

\* A delete call on a handle that was once created counts as one delete of it.
LifeDelete(k, h, out) ==
    IF h \in Handles /\ life[k][h].creates > 0
    THEN LifeAfter(k, h, out, "deletes")
    ELSE life

\* The Frames whose task lists grew from frames to g are stamped with nswaps.
Stamped(g) ==
    [hist EXCEPT !.born =
        [f \in FrameIds |->
            IF g[f].pre # frames[f].pre \/ g[f].tasks # frames[f].tasks
               \/ g[f].post # frames[f].post
            THEN hist.born[f] \cup {nswaps}
            ELSE hist.born[f]]]

Return(p, out) ==
    /\ regs' = out.regs
    /\ frames' = out.frames
    /\ hist' = Stamped(out.frames)
    /\ ret' = [ret EXCEPT ![p] = out.res]
    /\ poisoned' = IF out.poison THEN poisoned \cup {FrontIndex} ELSE poisoned
    /\ pc' = [pc EXCEPT ![p] = IF out.res.tag = "Panic" THEN "dead" ELSE "idle"]
    /\ dpc' = IF out.res.tag = "Panic" THEN "dead" ELSE dpc
    /\ ncalls' = ncalls + 1
    /\ UNCHANGED <<idx, guard, idxReaders, call, dret, devLog,
                   dev, snap, cadence, nticks, nswaps, dimensions, tickLog, last, resized>>

CreateSurface ==
    /\ CanCall(Caller)
    /\ regs["surface"].n < MaxHandles
    /\ LET out == CreateUniqueOutcome("create_surface", "surface")
       IN  Return(Caller, out) /\ life' = LifeCreate("surface", out)

CreateShader(loc, setup) ==
    /\ CanCall(Caller)
    /\ regs["shader"].n < MaxHandles
    /\ LET out == CreateShaderOutcome(loc, setup)
       IN  Return(Caller, out) /\ life' = LifeCreate("shader", out)

CreateMesh(loc, setup, verts, idxes) ==
    /\ CanCall(Caller)
    /\ regs["mesh"].n < MaxHandles
    /\ LET out == CreateMeshOutcome(loc, setup, verts, idxes)
       IN  Return(Caller, out) /\ life' = LifeCreate("mesh", out)

CreateTexture(loc, data) ==
    /\ CanCall(Caller)
    /\ regs["texture"].n < MaxHandles
    /\ LET out == CreateTextureOutcome(loc, data)
       IN  Return(Caller, out) /\ life' = LifeCreate("texture", out)

Delete(k, h) ==
    /\ CanCall(Caller)
    /\ LET out == DeleteOutcome(k, h)
       IN  Return(Caller, out) /\ life' = LifeDelete(k, h, out)

SubmitDrawcall(s, o, dc) ==
    /\ CanCall(Caller)
    /\ Return(Caller, SubmitDrawcallOutcome(s, o, dc))
    /\ UNCHANGED life

SubmitUpdateVertexBuffer(s, o, mesh, n) ==
    /\ CanCall(Caller)
    /\ Return(Caller, SubmitUpdateBufferOutcome("UpdateVertexBuffer", s, o, mesh, n))
    /\ UNCHANGED life

SubmitSetScissor(s, o) ==
    /\ CanCall(Caller)
    /\ Return(Caller, SubmitSetScissorOutcome(s, o))
    /\ UNCHANGED life

UpdateVertexBuffer(mesh, n) ==
    /\ CanCall(Caller)
    /\ Return(Caller, UpdateBufferOutcome("UpdateVertexBuffer", mesh, n))
    /\ UNCHANGED life

CreateFrameBuffer(setup) ==
    /\ CanCall(Caller)
    /\ regs["framebuffer"].n < MaxHandles
    /\ LET out == CreateFrameBufferOutcome(setup)
       IN  Return(Caller, out) /\ life' = LifeCreate("framebuffer", out)

CreateRenderBuffer ==
    /\ CanCall(Caller)
    /\ regs["render_buffer"].n < MaxHandles
    /\ LET out == CreateRenderBufferOutcome
       IN  Return(Caller, out) /\ life' = LifeCreate("render_buffer", out)

CreateRenderTexture ==
    /\ CanCall(Caller)
    /\ regs["texture"].n < MaxHandles
    /\ LET out == CreateRenderTextureOutcome
       IN  Return(Caller, out) /\ life' = LifeCreate("texture", out)

CreateTextureFrom(loc) ==
    /\ CanCall(Caller)
    /\ regs["texture"].n < MaxHandles
    /\ LET out == CreateTextureFromOutcome(loc)
       IN  Return(Caller, out) /\ life' = LifeCreate("texture", out)

UpdateTexture(texture, n) ==
    /\ CanCall(Caller)
    /\ Return(Caller, UpdateTextureOutcome(texture, n))
    /\ UNCHANGED life

SubmitUpdateTexture(s, o, texture, n) ==
    /\ CanCall(Caller)
    /\ Return(Caller, SubmitUpdateTextureOutcome(s, o, texture, n))
    /\ UNCHANGED life

DrawCalls == [shader : Handles, mesh : Handles, uniforms : UniformLists]

\* ------------------------------------------------------------------- Device
\* backend::device::Device is an external collaborator: every call may fail.
\* A log entry is one device call and whether it succeeded.
\* slot and with are the attachment slot and the attached handle of an
\* update_framebuffer_with_* call.
DevCall(phase, name, k, h, tasks, ok) ==
    [phase |-> phase, call |-> name, k |-> k, h |-> h, tasks |-> tasks, ok |-> ok,
     slot |-> 0, with |-> 0]

AttachCallName(kind) ==
    CASE kind = "RenderBuffer" -> "update_framebuffer_with_renderbuffer"
      [] kind = "Texture" -> "update_framebuffer_with_texture"

AttachCall(h, attachment, i) ==
    [DevCall("pre", AttachCallName(attachment.kind), "framebuffer", h, <<>>, TRUE)
        EXCEPT !.slot = i, !.with = attachment.h]

PreCallName(t) ==
    CASE t = "CreateSurface" -> "create_surface"
      [] t = "CreatePipeline" -> "create_shader"
      [] t = "CreateFrameBuffer" -> "create_framebuffer"
      [] t = "CreateRenderBuffer" -> "create_render_buffer"
      [] t = "CreateMesh" -> "create_mesh"
      [] t = "CreateTexture" -> "create_texture"
      [] t = "CreateRenderTexture" -> "create_render_texture"
      [] OTHER -> "update"

PostCallName(t) ==
    CASE t = "DeleteSurface" -> "delete_surface"
      [] t = "DeletePipeline" -> "delete_shader"
      [] t = "DeleteFrameBuffer" -> "delete_framebuffer"
      [] t = "DeleteRenderBuffer" -> "delete_render_buffer"
      [] t = "DeleteMesh" -> "delete_mesh"
      [] t = "DeleteTexture" -> "delete_texture"

\* The attachment loop of the CreateFrameBuffer arm, from slot i on, visiting
\* the slots from the last one down.
RECURSIVE AttachCallsDescending(_, _, _)
AttachCallsDescending(h, att, i) ==
    IF i > Len(att)
    THEN <<>>
    ELSE AttachCallsDescending(h, att, i + 1)
         \o (IF att[i] = <<>> THEN <<>> ELSE <<AttachCall(h, att[i][1], i)>>)

\* for (i, attachment) in setup.attachments().iter().enumerate(), from slot i
\* on: one device call for every slot that is Some.
RECURSIVE AttachCalls(_, _, _)
AttachCalls(h, att, i) ==
    IF i > Len(att)
    THEN <<>>
    ELSE (IF att[i] = <<>> THEN <<>> ELSE <<AttachCall(h, att[i][1], i)>>)
         \o AttachCalls(h, att, i + 1)

\* The device calls of one pre-task: its own call, then for a framebuffer
\* the calls of its attachments.
TaskCalls(task) ==
    <<DevCall("pre", PreCallName(task.t), task.k, task.h, <<>>, TRUE)>>
    \o AttachCalls(task.h, task.att, 1)

\* The device calls of the pre-tasks with the newest task served first.
RECURSIVE PreCallsNewestFirst(_)
PreCallsNewestFirst(pre) ==
    IF pre = <<>> THEN <<>> ELSE PreCallsNewestFirst(Tail(pre)) \o TaskCalls(Head(pre))

\* The device calls of the pre-tasks and of the post-tasks, in drain order.
RECURSIVE PreCalls(_)
PreCalls(pre) ==
    IF pre = <<>> THEN <<>> ELSE TaskCalls(Head(pre)) \o PreCalls(Tail(pre))
PostCalls(post) == [i \in 1..Len(post) |-> DevCall("post", PostCallName(post[i].t), post[i].k, post[i].h, <<>>, TRUE)]
FlushCall(tasks) == DevCall("flush", "flush", "", 0, tasks, TRUE)

\* The device's flush groups the ordered tasks by (surface, order): a task
\* runs before another when its key is smaller.
KeyLess(a, b) == a.s < b.s \/ (a.s = b.s /\ a.o < b.o)

\* Insert position i of tasks into the execution order ord, after every
\* position whose key is not greater (before == FALSE) or before every
\* position whose key is not smaller (before == TRUE).
RECURSIVE InsertByKey(_, _, _, _)
InsertByKey(ord, i, tasks, before) ==
    IF ord = <<>>
    THEN <<i>>
    ELSE IF KeyLess(tasks[i], tasks[Head(ord)])
            \/ (before /\ ~KeyLess(tasks[Head(ord)], tasks[i]))
         THEN <<i>> \o ord
         ELSE <<Head(ord)>> \o InsertByKey(Tail(ord), i, tasks, before)

RECURSIVE SortByKey(_, _, _)
SortByKey(tasks, n, before) ==
    IF n = 0 THEN <<>> ELSE InsertByKey(SortByKey(tasks, n - 1, before), n, tasks, before)

\* A sort by key that puts a later task before the earlier ones of its key.
DeviceOrderLastFirst(tasks) == SortByKey(tasks, Len(tasks), TRUE)

\* The positions of the flushed list in the order the device executes them:
\* sorted by (surface, order), tasks of one key in the order of the list.
DeviceOrder(tasks) == SortByKey(tasks, Len(tasks), FALSE)

\* The first n calls succeed, the next one fails and the ones after it are
\* made all the same.
AttemptCarryOn(calls, n) ==
    [i \in DOMAIN calls |-> IF i = n + 1 THEN [calls[i] EXCEPT !.ok = FALSE] ELSE calls[i]]

\* The first n calls succeed; the next one, if any is left, fails.
Attempt(calls, n) ==
    IF n >= Len(calls)
    THEN calls
    ELSE Append(SubSeq(calls, 1, n), [calls[n + 1] EXCEPT !.ok = FALSE])

IsCreateCall(c) == c.phase = "pre" /\ c.call # "update" /\ c.slot = 0

DevApply(d, calls) ==
    [k \in Kinds |->
        [created |-> d[k].created \cup
            {calls[i].h : i \in {j \in DOMAIN calls : calls[j].ok /\ IsCreateCall(calls[j]) /\ calls[j].k = k}},
         deleted |-> d[k].deleted \cup
            {calls[i].h : i \in {j \in DOMAIN calls : calls[j].ok /\ calls[j].phase = "post" /\ calls[j].k = k}}]]

\* ----------------------------------------------------------- Frame::dispatch
\* Each phase takes the Frame and how many of its device calls succeed, and
\* gives the Frame after it, the device calls made and whether it completed.
\* for v in self.pre.drain(..): the drain empties pre even when `?` leaves early.
RunPre(f, n) ==
    [frame |-> [f EXCEPT !.pre = <<>>],
     log |-> Attempt(PreCalls(f.pre), n),
     ok |-> n >= Len(PreCalls(f.pre))]

RunFlush(f, n) ==
    [frame |-> f,
     log |-> <<[FlushCall(f.tasks) EXCEPT !.ok = (n >= 1)]>>,
     ok |-> n >= 1]

RunPost(f, n) ==
    [frame |-> [f EXCEPT !.post = <<>>],
     log |-> Attempt(PostCalls(f.post), n),
     ok |-> n >= Len(f.post)]

NumDeviceCalls(f) == Len(PreCalls(f.pre)) + 1 + Len(f.post)

\* Dispatch with the flush call made before the pre-tasks are drained.
DispatchFlushFirst(f, n) ==
    LET b == RunFlush(f, n)
        a == RunPre(b.frame, n - 1)
        c == RunPost(a.frame, n - Len(PreCalls(f.pre)) - 1)
    IN  IF ~b.ok
        THEN b
        ELSE IF ~a.ok
             THEN [frame |-> a.frame, log |-> b.log \o a.log, ok |-> FALSE]
             ELSE [frame |-> c.frame, log |-> b.log \o a.log \o c.log, ok |-> c.ok]

Dispatch(f, n) ==
    LET a == RunPre(f, n)
        b == RunFlush(a.frame, n - Len(PreCalls(f.pre)))
        c == RunPost(b.frame, n - Len(PreCalls(f.pre)) - 1)
    IN  IF ~a.ok
        THEN a
        ELSE IF ~b.ok
             THEN [frame |-> b.frame, log |-> a.log \o b.log, ok |-> FALSE]
             ELSE [frame |-> c.frame, log |-> a.log \o b.log \o c.log, ok |-> c.ok]

\* -------------------------------------------------------------- Frame Driver
ReclaimOrder == <<"surface", "shader", "framebuffer", "mesh", "texture", "render_buffer">>

Held == guard[Driver]

\* swap_frames that leaves the role index as it was.
SwapFramesNoToggle ==
    /\ dpc = "idle"
    /\ nswaps < MaxSwaps
    /\ idxReaders = {}
    /\ nswaps' = nswaps + 1
    /\ cadence' = IF nswaps = 0 \/ cadence = "advanced" THEN "swapped" ELSE "irregular"
    /\ hist' = [hist EXCEPT !.wasFront = FrontIndex]
    /\ UNCHANGED <<idx, frames, guard, poisoned, idxReaders, regs, pc, call, ret,
                   dpc, dret, devLog, dev, snap, life, ncalls, nticks, dimensions, tickLog, last, resized>>

\* swap_frames that also empties the Frame it hands to the driver.
SwapFramesAndClear ==
    /\ dpc = "idle"
    /\ nswaps < MaxSwaps
    /\ idxReaders = {}
    /\ idx' = (idx + 1) % 2
    /\ frames' = [frames EXCEPT ![FrontIndex] = FrameClear(@)]
    /\ nswaps' = nswaps + 1
    /\ cadence' = IF nswaps = 0 \/ cadence = "advanced" THEN "swapped" ELSE "irregular"
    /\ hist' = [hist EXCEPT !.wasFront = FrontIndex]
    /\ UNCHANGED <<guard, poisoned, idxReaders, regs, pc, call, ret,
                   dpc, dret, devLog, dev, snap, life, ncalls, nticks, dimensions, tickLog, last, resized>>

\* GraphicsSystem::swap_frames: DoubleFrame::swap_frames under idx.write().
SwapFrames ==
    /\ dpc = "idle"
    /\ nswaps < MaxSwaps
    /\ idxReaders = {}
    /\ idx' = (idx + 1) % 2
    /\ nswaps' = nswaps + 1
    /\ cadence' = IF nswaps = 0 \/ cadence = "advanced" THEN "swapped" ELSE "irregular"
    /\ hist' = [hist EXCEPT !.wasFront = FrontIndex]
    /\ UNCHANGED <<frames, guard, poisoned, idxReaders, regs, pc, call, ret,
                   dpc, dret, devLog, dev, snap, life, ncalls, nticks, dimensions, tickLog, last, resized>>

CadenceAfterAdvance ==
    IF cadence = "irregular" \/ nswaps = 0 THEN cadence
    ELSE IF cadence = "swapped" THEN "advanced" ELSE "irregular"

\* What advance leaves in the history: the dispatched Frame is emptied by
\* frame.clear(); an advance that returned an error is remembered.
HistAfter(cleared, ok) ==
    [hist EXCEPT !.born = IF cleared THEN [@ EXCEPT ![BackIndex] = {}] ELSE @,
                 !.failed = @ \/ ~ok]

AdvanceFailures == {"", "run_one_frame", "swap_buffers"}

\* What one call of advance leaves: the Frames, registries, device and shared
\* dimensions after it, what it returned, the device calls of its dispatch and
\* the other collaborator calls it made, whether frame.clear() ran.
AdvanceResult(f, r, d, dims, res, log, calls, cleared) ==
    [frames |-> f, regs |-> r, dev |-> d, dimensions |-> dims, res |-> res,
     devLog |-> log, tickLog |-> calls, cleared |-> cleared]

\* advance from run_one_frame on, with the sizes it read from the window.
AdvanceOnWindow(dims, fail, n) ==
    LET d == Dispatch(frames[BackIndex], n)
        ran == [frames EXCEPT ![BackIndex] = d.frame]
        clr == [frames EXCEPT ![BackIndex] = FrameClear(d.frame)]
    IN  IF fail = "run_one_frame"
        THEN AdvanceResult(frames, regs, dev, dims, Err("advance", "device"), <<>>,
                           <<"run_one_frame">>, FALSE)
        ELSE IF ~d.ok
             THEN AdvanceResult(ran, regs, DevApply(dev, d.log), dims, Err("advance", "device"),
                                d.log, <<"run_one_frame">>, FALSE)
             ELSE IF fail = "swap_buffers"
                  THEN AdvanceResult(clr, regs, DevApply(dev, d.log), dims,
                                     Err("advance", "swap_buffers"), d.log,
                                     <<"run_one_frame", "swap_buffers">>, TRUE)
                  ELSE AdvanceResult(clr, [k \in Kinds |-> RegClear(regs[k])],
                                     DevApply(dev, d.log), dims, Ok("advance", 0), d.log,
                                     <<"run_one_frame", "swap_buffers", "frame_info">>, TRUE)

WindowNotExist ==
    AdvanceResult(frames, regs, dev, dimensions, Err("advance", "WindowNotExist"), <<>>, <<>>,
                  FALSE)

\* advance that stores the first size before it has read the second.
AdvanceOutcomeStoreEarly(w, fail, n) ==
    IF w.dimensions = <<>>
    THEN WindowNotExist
    ELSE IF w.dimensions_in_pixels = <<>>
         THEN [WindowNotExist EXCEPT !.dimensions = <<w.dimensions[1], dimensions[2]>>]
         ELSE AdvanceOnWindow(<<w.dimensions[1], w.dimensions_in_pixels[1]>>, fail, n)

\* One call of advance with the window w it reads, the collaborator call
\* outside dispatch that fails, if any, and the number n of device calls of
\* the dispatch that succeed. Every `?` leaves at once: a failed dispatch
\* skips frame.clear(), a failed swap_buffers skips the registries' clear.
AdvanceOutcome(w, fail, n) ==
    IF w.dimensions = <<>>
    THEN WindowNotExist
    ELSE IF w.dimensions_in_pixels = <<>>
         THEN WindowNotExist
         ELSE AdvanceOnWindow(<<w.dimensions[1], w.dimensions_in_pixels[1]>>, fail, n)

\* The test of advance's resize block with the sizes compared in pixels.
ResizeNeededInPixels(w) ==
    w.dimensions_in_pixels[1] # dimensions[2] \/ last.hidpi # w.hidpi

\* if dimensions != self.last_dimensions || self.last_hidpi != hidpi
ResizeNeeded(w) ==
    w.dimensions[1] # last.dimensions \/ last.hidpi # w.hidpi

\* The resize block of advance for the window w it reads: what it remembers
\* and the argument of its window.resize call, if it makes one. Both `?` on
\* the window's sizes come before the block.
ResizeOutcome(w) ==
    IF w.dimensions = <<>> \/ w.dimensions_in_pixels = <<>>
    THEN [last |-> last, resized |-> <<>>]
    ELSE IF ResizeNeeded(w)
         THEN [last |-> [dimensions |-> w.dimensions[1], hidpi |-> w.hidpi],
               resized |-> <<w.dimensions[1]>>]
         ELSE [last |-> last, resized |-> <<>>]

\* advance as one step.
Tick(w, fail, n, limit) ==
    /\ dpc = "idle"
    /\ nticks < limit
    /\ CanLock(BackIndex)
    /\ BackIndex \notin poisoned
    /\ \E out \in {AdvanceOutcome(w, fail, n)} :
           /\ frames' = out.frames
           /\ regs' = out.regs
           /\ dev' = out.dev
           /\ dimensions' = out.dimensions
           /\ dret' = out.res
           /\ devLog' = out.devLog
           /\ tickLog' = out.tickLog
           /\ snap' = IF out.tickLog = <<>> \/ fail = "run_one_frame"
                      THEN snap ELSE frames[BackIndex]
           /\ hist' = HistAfter(out.cleared, out.res.tag = "Ok")
    /\ last' = ResizeOutcome(w).last
    /\ resized' = ResizeOutcome(w).resized
    /\ nticks' = nticks + 1
    /\ cadence' = CadenceAfterAdvance
    /\ UNCHANGED <<idx, guard, poisoned, idxReaders, pc, call, ret, dpc, life, ncalls, nswaps>>

\* advance with the window as it was at construction and no failure outside
\* the dispatch.
Advance(n) == Tick(SteadyWindow, "", n, MaxTicks)

\* ----------------------------------------------------------- specifications
ValidMeshSetup == [vertex_buffer_len |-> 1, index_buffer_len |-> 1, valid |-> TRUE]

\* Spec: the frame pipeline (pre, ordered and post tasks through swap and advance).
Next ==
    \/ SwapFrames
    \/ \E n \in 0..NumDeviceCalls(frames[BackIndex]) : Advance(n)
    \/ CreateSurface
    \/ \E loc \in SharedLocations : CreateMesh(loc, ValidMeshSetup, <<1>>, <<>>)
    \/ \E k \in {"surface", "mesh"}, h \in Handles : Delete(k, h)
    \/ \E s \in Handles, o \in OrderKeys : SubmitSetScissor(s, o)
    \/ \E s \in Handles, o \in OrderKeys, mesh \in Handles :
          SubmitUpdateVertexBuffer(s, o, mesh, 1)

Spec == Init /\ [][Next]_vars

\* SpecLife: creation, deduplication and reference-counted deletion.
NextLife ==
    \/ SwapFrames
    \/ \E loc \in SharedLocations, setup \in ShaderSetups : CreateShader(loc, setup)
    \/ \E loc \in SharedLocations, setup \in MeshSetups, verts \in ByteSpans :
          CreateMesh(loc, setup, verts, <<>>)
    \/ \E loc \in SharedLocations, data \in ByteSpans : CreateTexture(loc, data)
    \/ \E k \in SharedKinds, h \in Handles : Delete(k, h)

SpecLife == Init /\ [][NextLife]_vars

\* SpecSubmit: validation of draw calls against registries and shader state.
NextSubmit ==
    \/ SwapFrames
    \/ CreateSurface
    \/ \E loc \in SharedLocations : CreateMesh(loc, ValidMeshSetup, <<>>, <<>>)
    \/ \E loc \in SharedLocations, setup \in ShaderSetups : CreateShader(loc, setup)
    \/ \E k \in {"surface", "shader", "mesh"}, h \in Handles : Delete(k, h)
    \/ \E s \in Handles, dc \in DrawCalls : SubmitDrawcall(s, 3, dc)

SpecSubmit == Init /\ [][NextSubmit]_vars

\* SpecFail: the calls of SpecSubmit with every input that fails validation:
\* dead handles, undeclared and mismatched uniforms, oversized mesh bytes and
\* bad shader setups.
NextFail ==
    \/ SwapFrames
    \/ CreateSurface
    \/ \E loc \in SharedLocations, setup \in MeshSetups, verts \in ByteSpans :
          CreateMesh(loc, setup, verts, <<>>)
    \/ \E loc \in SharedLocations, setup \in ShaderSetups : CreateShader(loc, setup)
    \/ \E k \in {"surface", "shader", "mesh"}, h \in Handles : Delete(k, h)
    \/ \E s \in Handles, dc \in DrawCalls : SubmitDrawcall(s, 3, dc)

SpecFail == Init /\ [][NextFail]_vars

\* SpecTexture: texture readiness and the texture updates.
NextTexture ==
    \/ SwapFrames
    \/ CreateSurface
    \/ \E loc \in SharedLocations, data \in ByteSpans : CreateTexture(loc, data)
    \/ \E loc \in SharedLocations : CreateTextureFrom(loc)
    \/ \E h \in Handles : Delete("texture", h)
    \/ \E h \in Handles, n \in 1..MaxBytes : UpdateTexture(h, n)
    \/ \E s \in Handles, o \in OrderKeys, h \in Handles, n \in 1..MaxBytes :
          SubmitUpdateTexture(s, o, h, n)

SpecTexture == Init /\ [][NextTexture]_vars

\* SpecWindow: the driver's tick with a window that changes or goes away and
\* with collaborators that fail.
WindowTicks == MaxTicks + 1

NextWindow ==
    \/ SwapFrames
    \/ \E w \in Windows, fail \in AdvanceFailures, n \in 0..NumDeviceCalls(frames[BackIndex]) :
          Tick(w, fail, n, WindowTicks)
    \/ CreateSurface
    \/ \E h \in Handles : Delete("surface", h)

SpecWindow == Init /\ [][NextWindow]_vars

\* SpecResize: the driver's tick against a window that changes its size and
\* its pixel density from tick to tick.
ResizeTicks == MaxTicks + 2

NextResize ==
    \/ SwapFrames
    \/ \E w \in HidpiWindows, fail \in AdvanceFailures,
          n \in 0..NumDeviceCalls(frames[BackIndex]) : Tick(w, fail, n, ResizeTicks)
    \/ CreateSurface

SpecResize == Init /\ [][NextResize]_vars

\* SpecUpdate: buffer and texture updates, out of band and through submit.
NextUpdate ==
    \/ SwapFrames
    \/ \E n \in 0..NumDeviceCalls(frames[BackIndex]) : Advance(n)
    \/ CreateSurface
    \/ \E loc \in SharedLocations : CreateMesh(loc, ValidMeshSetup, <<>>, <<>>)
    \/ \E loc \in SharedLocations : CreateTexture(loc, <<>>)
    \/ \E s \in Handles, o \in OrderKeys, mesh \in Handles :
          SubmitUpdateVertexBuffer(s, o, mesh, 1)
    \/ \E mesh \in Handles : UpdateVertexBuffer(mesh, 1)
    \/ \E h \in Handles : UpdateTexture(h, 1)

SpecUpdate == Init /\ [][NextUpdate]_vars

\* SpecRegistry: the registries under create, delete and the driver's tick.
NextRegistry ==
    \/ SwapFrames
    \/ \E n \in 0..NumDeviceCalls(frames[BackIndex]) : Advance(n)
    \/ CreateSurface
    \/ \E loc \in SharedLocations : CreateMesh(loc, ValidMeshSetup, <<>>, <<>>)
    \/ \E loc \in SharedLocations : CreateTexture(loc, <<>>)
    \/ \E loc \in SharedLocations : CreateTextureFrom(loc)
    \/ \E k \in {"surface", "mesh", "texture"}, h \in Handles : Delete(k, h)

SpecRegistry == Init /\ [][NextRegistry]_vars

\* SpecTargets: the creators of unique resources (surfaces, framebuffers and
\* their attachments, render buffers, render textures), delete and the tick.
UniqueKinds == {"surface", "framebuffer", "render_buffer", "texture"}

NextTargets ==
    \/ SwapFrames
    \/ \E n \in 0..NumDeviceCalls(frames[BackIndex]) : Advance(n)
    \/ CreateSurface
    \/ \E setup \in FrameBufferSetups : CreateFrameBuffer(setup)
    \/ CreateRenderBuffer
    \/ CreateRenderTexture
    \/ \E k \in UniqueKinds : \E h \in DOMAIN regs[k].slots : Delete(k, h)

SpecTargets == Init /\ [][NextTargets]_vars

\* ================================================ interleaved calls (ConcSpec)
\* Producer threads run the facade calls step by step, one step per lock
\* acquisition, while the driver steps through swap_frames and advance.
\* The device succeeds except that flush may fail. The stamps of hist are
\* kept by the atomic calls and by SpecLocks only.
ConcTicks == MaxTicks + 1

\* Handles reach a thread through the return of a create call.
Returned(k, h) == life[k][h].creates > 0

CanBegin(p) == pc[p] = "idle" /\ ncalls < MaxCalls

Finish(p, res) ==
    /\ ret' = [ret EXCEPT ![p] = res]
    /\ pc' = [pc EXCEPT ![p] = IF res.tag = "Panic" THEN "dead" ELSE "idle"]
    /\ call' = [call EXCEPT ![p] = NoCall]

Goto(p, label, c) ==
    /\ pc' = [pc EXCEPT ![p] = label]
    /\ call' = [call EXCEPT ![p] = c]
    /\ UNCHANGED ret

Count(k, h, field) ==
    [life EXCEPT ![k][h] = [@ EXCEPT ![field] = @ + 1]]

\* create_surface up to the release of the surfaces write guard.
BeginCreateSurface(p) ==
    /\ CanBegin(p)
    /\ regs["surface"].n < MaxHandles
    /\ LET c == RegCreate(regs["surface"], Unique, "Ready")
       IN  /\ regs' = [regs EXCEPT !["surface"] = c.reg]
           /\ Goto(p, "front", NewCall("create_surface", "surface", c.h, 0, 0, 0, <<>>))
    /\ ncalls' = ncalls + 1
    /\ UNCHANGED <<idx, frames, guard, poisoned, idxReaders, dpc, dret, devLog, dev, snap,
                   life, cadence, nticks, nswaps,
                   hist, dimensions, tickLog, last, resized>>

\* create_mesh up to the release of the meshes write guard: validation, then
\* lookup and inc_rc (and return), or create.
BeginCreateMesh(p, loc, setup, verts, idxes) ==
    /\ CanBegin(p)
    /\ regs["mesh"].n < MaxHandles
    /\ LET op == "create_mesh"
           c == CreateShared(regs["mesh"], loc, "Ready")
       IN  IF MeshBoundsError(setup, verts, idxes) # ""
           THEN /\ Finish(p, Err(op, MeshBoundsError(setup, verts, idxes)))
                /\ UNCHANGED <<regs, life>>
           ELSE /\ regs' = [regs EXCEPT !["mesh"] = c.reg]
                /\ IF c.fresh
                   THEN /\ Goto(p, "front", NewCall(op, "mesh", c.h, 0, 0, 0, <<verts, idxes>>))
                        /\ UNCHANGED life
                   ELSE /\ Finish(p, Ok(op, c.h))
                        /\ life' = Count("mesh", c.h, "creates")
    /\ ncalls' = ncalls + 1
    /\ UNCHANGED <<idx, frames, guard, poisoned, idxReaders, dpc, dret, devLog, dev, snap,
                   cadence, nticks, nswaps,
                   hist, dimensions, tickLog, last, resized>>

\* submit(VertexBufferUpdate) up to the surface checks. submit and
\* submit_update_vertex_buffer both test the surface; the call goes on exactly
\* when the later test passes, which is the test taken here.
BeginSubmitUpdate(p, s, o, mesh, n) ==
    /\ CanBegin(p)
    /\ Returned("surface", s) /\ Returned("mesh", mesh)
    /\ IF RegIsAlive(regs["surface"], s)
       THEN Goto(p, "check", NewCall("submit_update_buffer", "mesh", mesh, s, o, n, <<>>))
       ELSE Finish(p, Err("submit_update_buffer", "Undefined surface handle."))
    /\ ncalls' = ncalls + 1
    /\ UNCHANGED <<idx, frames, guard, poisoned, idxReaders, regs, dpc, dret, devLog, dev,
                   snap, life, cadence, nticks, nswaps,
                   hist, dimensions, tickLog, last, resized>>

\* if self.meshes.read().unwrap().is_alive(..): the read guard is released
\* before the block that calls front().
CheckMesh(p) ==
    /\ pc[p] = "check"
    /\ IF RegIsAlive(regs["mesh"], call[p].h)
       THEN Goto(p, "front", call[p])
       ELSE Finish(p, Err("submit_update_buffer", "InvalidHandle"))
    /\ UNCHANGED <<idx, frames, guard, poisoned, idxReaders, regs, dpc, dret, devLog, dev,
                   snap, life, cadence, ncalls, nticks, nswaps,
                   hist, dimensions, tickLog, last, resized>>

\* delete_* up to the release of the registry's write guard.
BeginDelete(p, k, h) ==
    /\ CanBegin(p)
    /\ Returned(k, h)
    /\ LET d == RegDecRc(regs[k], h, TRUE)
       IN  /\ regs' = [regs EXCEPT ![k] = d.reg]
           /\ IF d.removed
              THEN Goto(p, "front", NewCall("delete", k, h, 0, 0, 0, <<>>))
              ELSE Finish(p, Ok("delete", 0))
    /\ life' = Count(k, h, "deletes")
    /\ ncalls' = ncalls + 1
    /\ UNCHANGED <<idx, frames, guard, poisoned, idxReaders, dpc, dret, devLog, dev, snap,
                   cadence, nticks, nswaps,
                   hist, dimensions, tickLog, last, resized>>

\* front(), first half: self.idx.read(). The read guard is a temporary of the
\* tail expression and lives until the Mutex is locked.
FrontRead(p) ==
    /\ pc[p] = "front"
    /\ idxReaders' = idxReaders \cup {p}
    /\ Goto(p, "lock", [call[p] EXCEPT !.f = idx])
    /\ UNCHANGED <<idx, frames, guard, poisoned, regs, dpc, dret, devLog, dev, snap, life,
                   cadence, ncalls, nticks, nswaps,
                   hist, dimensions, tickLog, last, resized>>

\* front(), second half: self.frames[i].lock().unwrap().
FrontLock(p) ==
    /\ pc[p] = "lock"
    /\ CanLock(call[p].f)
    /\ idxReaders' = idxReaders \ {p}
    /\ IF call[p].f \in poisoned
       THEN Finish(p, Panic(call[p].op, PoisonMsg)) /\ UNCHANGED guard
       ELSE Goto(p, "append", call[p]) /\ guard' = [guard EXCEPT ![p] = call[p].f]
    /\ UNCHANGED <<idx, frames, poisoned, regs, dpc, dret, devLog, dev, snap, life, cadence,
                   ncalls, nticks, nswaps,
                   hist, dimensions, tickLog, last, resized>>

\* What the call appends to the Frame whose guard it holds.
AppendOf(f, c) ==
    CASE c.op = "create_surface" -> PushPre(f, PreTask(CreateTaskName(c.k), c.k, c.h, <<>>))
      [] c.op = "create_mesh" -> PushCreateWithSpans(f, "CreateMesh", "mesh", c.h, c.spans)
      [] c.op = "create_shader" -> PushPre(f, PreTask("CreatePipeline", "shader", c.h, <<>>))
      [] c.op = "create_texture" ->
            PushCreateWithSpans(f, "CreateTexture", "texture", c.h, c.spans)
      [] c.op = "submit_update_buffer" ->
            UpdateOnFrame(f, c.s, c.o, "UpdateVertexBuffer", "mesh", c.h, c.n)
      [] c.op = "delete" -> PushPost(f, PostTask(DeleteTaskName(c.k), c.k, c.h))

IsCreateOp(op) == op \in {"create_surface", "create_mesh", "create_shader", "create_texture"}

\* The append under the guard, the release of the guard and the return.
AppendAndReturn(p) ==
    /\ pc[p] = "append"
    /\ frames' = [frames EXCEPT ![guard[p]] = AppendOf(@, call[p])]
    /\ guard' = [guard EXCEPT ![p] = NoFrame]
    /\ Finish(p, Ok(call[p].op, IF IsCreateOp(call[p].op) THEN call[p].h ELSE 0))
    /\ life' = CASE IsCreateOp(call[p].op) ->
                      [life EXCEPT ![call[p].k][call[p].h] =
                          [@ EXCEPT !.creates = @ + 1, !.pres = @ + 1]]
                 [] call[p].op = "delete" -> Count(call[p].k, call[p].h, "posts")
                 [] OTHER -> life
    /\ UNCHANGED <<idx, poisoned, idxReaders, regs, dpc, dret, devLog, dev, snap, cadence,
                   ncalls, nticks, nswaps, hist, dimensions, tickLog, last, resized>>

\* ---- advance, step by step
\* The window is as it was at construction and run_one_frame succeeds; then
\* let mut frame = self.frames.back();
AdvBack ==
    /\ dpc = "idle"
    /\ nticks < ConcTicks
    /\ CanLock(BackIndex)
    /\ IF BackIndex \in poisoned
       THEN /\ dpc' = "dead"
            /\ dret' = Panic("advance", PoisonMsg)
            /\ UNCHANGED <<guard, snap, devLog>>
       ELSE /\ guard' = [guard EXCEPT ![Driver] = BackIndex]
            /\ dpc' = "pre"
            /\ snap' = frames[BackIndex]
            /\ devLog' = <<>>
            /\ UNCHANGED dret
    /\ cadence' = CadenceAfterAdvance
    /\ dimensions' = <<SteadyWindow.dimensions[1], SteadyWindow.dimensions_in_pixels[1]>>
    /\ tickLog' = <<"run_one_frame">>
    /\ UNCHANGED <<idx, frames, poisoned, idxReaders, regs, pc, call, ret, dev, life,
                   ncalls, nticks, nswaps, hist, last, resized>>

\* One phase of frame.dispatch(..)? under the back guard: on failure `?` drops
\* the guard and advance returns the error.
AdvPhase(phase, next, d) ==
    /\ dpc = phase
    /\ frames' = [frames EXCEPT ![Held] = d.frame]
    /\ devLog' = devLog \o d.log
    /\ dev' = DevApply(dev, d.log)
    /\ IF d.ok
       THEN /\ dpc' = next
            /\ UNCHANGED <<guard, dret, nticks>>
       ELSE /\ dpc' = "idle"
            /\ guard' = [guard EXCEPT ![Driver] = NoFrame]
            /\ dret' = Err("advance", "device")
            /\ nticks' = nticks + 1
    /\ UNCHANGED <<idx, poisoned, idxReaders, regs, pc, call, ret, snap, life, cadence,
                   ncalls, nswaps, hist, dimensions, tickLog, last, resized>>

AdvPre == AdvPhase("pre", "flush", RunPre(frames[Held], Len(PreCalls(frames[Held].pre))))

AdvFlush(n) == AdvPhase("flush", "post", RunFlush(frames[Held], n))

AdvPost == AdvPhase("post", "clear", RunPost(frames[Held], Len(frames[Held].post)))

\* frame.clear(); and the end of the block that holds the guard.
AdvClear ==
    /\ dpc = "clear"
    /\ frames' = [frames EXCEPT ![Held] = FrameClear(@)]
    /\ guard' = [guard EXCEPT ![Driver] = NoFrame]
    /\ dpc' = "reclaim"
    /\ UNCHANGED <<idx, poisoned, idxReaders, regs, pc, call, ret, dret, devLog, dev, snap,
                   life, cadence, ncalls, nticks, nswaps, hist, dimensions, tickLog, last, resized>>

\* The registries' clear, each under its write guard, and the return.
AdvReclaim ==
    /\ dpc = "reclaim"
    /\ regs' = [k \in Kinds |-> RegClear(regs[k])]
    /\ dret' = Ok("advance", 0)
    /\ dpc' = "idle"
    /\ nticks' = nticks + 1
    /\ tickLog' = <<"run_one_frame", "swap_buffers", "frame_info">>
    /\ UNCHANGED <<idx, frames, guard, poisoned, idxReaders, pc, call, ret, devLog, dev,
                   snap, life, cadence, ncalls, nswaps, hist, dimensions, last, resized>>

NextConc ==
    \/ SwapFrames
    \/ AdvBack
    \/ AdvPre
    \/ \E n \in {0, 1} : AdvFlush(n)
    \/ AdvPost
    \/ AdvClear
    \/ AdvReclaim
    \/ \E p \in Producers : BeginCreateSurface(p)
    \/ \E p \in Producers, loc \in SharedLocations :
          BeginCreateMesh(p, loc, ValidMeshSetup, <<>>, <<>>)
    \/ \E p \in Producers, s \in Handles, mesh \in Handles : BeginSubmitUpdate(p, s, 3, mesh, 1)
    \/ \E p \in Producers, h \in Handles : BeginDelete(p, "mesh", h)
    \/ \E p \in Producers : CheckMesh(p)
    \/ \E p \in Producers : FrontRead(p)
    \/ \E p \in Producers : FrontLock(p)
    \/ \E p \in Producers : AppendAndReturn(p)

ConcSpec == Init /\ [][NextConc]_vars

\* ================================================== lock nesting (SpecLocks)
\* submit_drawcall, update_texture and update_vertex_buffer step by step, one
\* step per lock acquisition, against swap_frames and advance. The resources
\* are created between the calls; the draw calls carry no uniform.
ValidShaderSetup == [vs |-> 1, fs |-> 1, uniform_variables |-> [n \in {"u_a"} |-> "F"]]

\* The registry read guards a producer holds at its position: submit_drawcall
\* holds shaders.read() through its `if let` body, update_texture holds
\* textures.read() through its `if let` body.
\* submit_drawcall with the read guard of line 225 taken on the textures.
DcRegistryTextures == "texture"

\* The registry submit_drawcall reads under the Frame guard (line 225).
DcRegistry == "shader"

RegGuards(p) ==
    CASE pc[p] = "dc_loop" -> {DcRegistry}
      [] pc[p] \in {"ut_front", "ut_lock", "ut_push"} -> {"texture"}
      [] OTHER -> {}

FrameGuards(p) == IF guard[p] \in FrameIds THEN {guard[p]} ELSE {}

LocksHeld(p) == {<<"registry", k>> : k \in RegGuards(p)} \cup {<<"frame", f>> : f \in FrameGuards(p)}

\* No producer is inside a call: no registry guard and no Frame guard is held.
Quiet == \A p \in Producers : pc[p] \in {"idle", "dead"} /\ LocksHeld(p) = {}

LocksUnchanged ==
    UNCHANGED <<idx, frames, guard, poisoned, idxReaders, regs, dpc, dret, devLog, dev, snap,
                life, cadence, nticks, nswaps, hist, dimensions, tickLog, last, resized>>

\* submit(DrawCall) up to the surface check of submit (199-201) and the mesh
\* check of submit_drawcall (218-220); each read guard is a temporary of its
\* condition.
BeginSubmitDrawcall(p, s, o, dc) ==
    /\ CanBegin(p)
    /\ IF ~RegIsAlive(regs["surface"], s)
       THEN Finish(p, Err("submit_drawcall", "Undefined surface handle."))
       ELSE IF ~RegIsAlive(regs["mesh"], dc.mesh)
            THEN Finish(p, Err("submit_drawcall", "Undefined mesh handle."))
            ELSE Goto(p, "dc_front",
                      NewCall("submit_drawcall", "shader", dc.shader, s, o, dc.mesh, <<>>))
    /\ ncalls' = ncalls + 1
    /\ LocksUnchanged

\* update_texture: if let Some(state) = self.textures.read().unwrap().get(..)
\* keeps the read guard for the whole body, front() included.
BeginUpdateTexture(p, texture, n) ==
    /\ CanBegin(p)
    /\ IF ~RegIsAlive(regs["texture"], texture)
       THEN Finish(p, Err("update_texture", "InvalidHandle"))
       ELSE IF RegGet(regs["texture"], texture) # "Ready"
            THEN Finish(p, Ok("update_texture", 0))
            ELSE Goto(p, "ut_front", NewCall("update_texture", "texture", texture, 0, 0, n, <<>>))
    /\ ncalls' = ncalls + 1
    /\ LocksUnchanged

\* update_vertex_buffer: if self.meshes.read().unwrap().is_alive(..) drops the
\* read guard at the end of the condition.
BeginUpdateVertexBuffer(p, mesh, n) ==
    /\ CanBegin(p)
    /\ IF ~RegIsAlive(regs["mesh"], mesh)
       THEN Finish(p, Err("update_buffer", "InvalidHandle"))
       ELSE Goto(p, "uv_front", NewCall("update_buffer", "mesh", mesh, 0, 0, n, <<>>))
    /\ ncalls' = ncalls + 1
    /\ LocksUnchanged

\* self.frames.front(): the index is read and the Mutex of that Frame locked;
\* idx.read() is held until the lock is taken, so no swap comes between.
TakeFront(p, from, to) ==
    /\ pc[p] = from
    /\ CanLock(FrontIndex)
    /\ IF FrontPoisoned
       THEN Finish(p, Panic(call[p].op, PoisonMsg)) /\ UNCHANGED guard
       ELSE Goto(p, to, [call[p] EXCEPT !.f = FrontIndex])
            /\ guard' = [guard EXCEPT ![p] = FrontIndex]
    /\ UNCHANGED <<idx, frames, poisoned, idxReaders, regs, dpc, dret, devLog, dev, snap,
                   life, cadence, ncalls, nticks, nswaps, hist, dimensions, tickLog, last, resized>>

DcFront(p) == TakeFront(p, "dc_front", "dc_shaders")
UtFront(p) == TakeFront(p, "ut_front", "ut_push")
UvFront(p) == TakeFront(p, "uv_front", "uv_push")

\* The push under the Frame guard the producer holds, the release of its
\* guards and the return.
PushAndReturn(p, f, res, poison) ==
    /\ frames' = [frames EXCEPT ![guard[p]] = f]
    /\ hist' = IF f.pre # frames[guard[p]].pre \/ f.tasks # frames[guard[p]].tasks
               THEN [hist EXCEPT !.born[guard[p]] = @ \cup {nswaps}]
               ELSE hist
    /\ poisoned' = IF poison THEN poisoned \cup {guard[p]} ELSE poisoned
    /\ guard' = [guard EXCEPT ![p] = NoFrame]
    /\ Finish(p, res)
    /\ UNCHANGED <<idx, idxReaders, regs, dpc, dret, devLog, dev, snap, life, cadence,
                   ncalls, nticks, nswaps, dimensions, tickLog, last, resized>>

\* submit_drawcall, line 225: self.shaders.read() is taken under the Frame
\* guard; without a shader slot the else branch bails.
DcShaders(p) ==
    /\ pc[p] = "dc_shaders"
    /\ IF RegIsAlive(regs["shader"], call[p].h)
       THEN /\ Goto(p, "dc_loop", call[p])
            /\ UNCHANGED <<idx, frames, guard, poisoned, idxReaders, regs, dpc, dret, devLog,
                           dev, snap, life, cadence, ncalls, nticks, nswaps, hist,
                           dimensions, tickLog, last, resized>>
       ELSE PushAndReturn(p, frames[guard[p]],
                          Err("submit_drawcall", "Undefined shader state handle."), FALSE)

\* submit_drawcall, lines 226-253: the uniforms, the pack and the push.
DcLoop(p) ==
    /\ pc[p] = "dc_loop"
    /\ LET c == call[p]
           dc == [shader |-> c.h, mesh |-> c.n, uniforms |-> c.spans]
           d == DrawcallOnFrame(frames[guard[p]], regs, c.s, c.o, dc)
       IN  PushAndReturn(p, d.frame,
                         IF d.tag = "Ok" THEN Ok(c.op, 0)
                         ELSE IF d.tag = "Err" THEN Err(c.op, d.msg) ELSE Panic(c.op, d.msg),
                         d.tag \notin {"Ok", "Err"})

UtPush(p) ==
    /\ pc[p] = "ut_push"
    /\ PushAndReturn(p, UpdatePreOnFrame(frames[guard[p]], "UpdateTexture", "texture",
                                         call[p].h, call[p].n),
                     Ok("update_texture", 0), FALSE)

UvPush(p) ==
    /\ pc[p] = "uv_push"
    /\ PushAndReturn(p, UpdatePreOnFrame(frames[guard[p]], "UpdateVertexBuffer", "mesh",
                                         call[p].h, call[p].n),
                     Ok("update_buffer", 0), FALSE)

\* advance takes the registries' write guards for its clear: it completes
\* only when no producer holds a read guard.
AdvanceUnlocked(n) ==
    /\ \A p \in Producers : RegGuards(p) = {}
    /\ Advance(n)

NextLocks ==
    \/ SwapFrames
    \/ \E n \in 0..NumDeviceCalls(frames[BackIndex]) : AdvanceUnlocked(n)
    \/ Quiet /\ CreateSurface
    \/ Quiet /\ \E loc \in SharedLocations : CreateShader(loc, ValidShaderSetup)
    \/ Quiet /\ \E loc \in SharedLocations : CreateMesh(loc, ValidMeshSetup, <<>>, <<>>)
    \/ Quiet /\ \E loc \in SharedLocations : CreateTexture(loc, <<>>)
    \/ \E p \in Producers, s \in Handles, sh \in Handles, m \in Handles :
          BeginSubmitDrawcall(p, s, 3, [shader |-> sh, mesh |-> m, uniforms |-> <<>>])
    \/ \E p \in Producers, h \in Handles : BeginUpdateTexture(p, h, 1)
    \/ \E p \in Producers, h \in Handles : BeginUpdateVertexBuffer(p, h, 1)
    \/ \E p \in Producers : DcFront(p)
    \/ \E p \in Producers : DcShaders(p)
    \/ \E p \in Producers : DcLoop(p)
    \/ \E p \in Producers : UtFront(p)
    \/ \E p \in Producers : UtPush(p)
    \/ \E p \in Producers : UvFront(p)
    \/ \E p \in Producers : UvPush(p)

SpecLocks == Init /\ [][NextLocks]_vars

\* ====================================================== lock waits (SpecLive)
\* update_texture and submit_drawcall of several threads against swap_frames
\* and advance, with one step per lock acquisition and every wait for a lock
\* a position of its thread. An RwLock may put a reader behind a writer that
\* waits (std::sync::RwLock leaves the policy to the platform): a reader is
\* admitted only while no writer waits for the lock. Writers that take and
\* release a guard inside one statement while holding nothing else are atomic.
LiveCalls == MaxCalls + 2
LiveSwaps == MaxSwaps - 1
LiveTicks == MaxTicks
\* The uniforms of the draw calls: none, or one name the shader does not
\* declare, whose lookup at line 235 panics under the Frame guard.
LiveUniforms == {<<>>, <<<<NameHash("u_b"), "F">>>>}

Readers(k) == {p \in Producers : k \in RegGuards(p)}

\* The registry whose write guard advance is waiting for: after the Frame
\* block it clears surfaces, shaders, framebuffers, meshes, textures and
\* render buffers in this order, one write guard at a time.
WriterWaits(k) ==
    \/ dpc = "reclaim" /\ k = "shader"
    \/ dpc = "reclaim_textures" /\ k = "texture"

\* A thread enters update_texture or submit(DrawCall).
LiveBegin(p, label, c) ==
    /\ pc[p] = "idle"
    /\ ncalls < LiveCalls
    /\ Goto(p, label, c)
    /\ ncalls' = ncalls + 1
    /\ LocksUnchanged

\* update_texture: self.textures.read().unwrap().get(..), the guard kept for
\* the body of the `if let`; state.read() is a temporary of the condition.
UtRead(p) ==
    /\ pc[p] = "ut_read"
    /\ ~WriterWaits("texture")
    /\ IF ~RegIsAlive(regs["texture"], call[p].h)
       THEN Finish(p, Err("update_texture", "InvalidHandle"))
       ELSE IF RegGet(regs["texture"], call[p].h) # "Ready"
            THEN Finish(p, Ok("update_texture", 0))
            ELSE Goto(p, "ut_front", call[p])
    /\ UNCHANGED ncalls
    /\ LocksUnchanged

\* submit and submit_drawcall up to front(): the surface test (199-201) and
\* the mesh test (218-220), each read guard a temporary of its condition.
DcChecks(p) ==
    /\ pc[p] = "dc_checks"
    /\ IF ~RegIsAlive(regs["surface"], call[p].s)
       THEN Finish(p, Err("submit_drawcall", "Undefined surface handle."))
       ELSE IF ~RegIsAlive(regs["mesh"], call[p].n)
            THEN Finish(p, Err("submit_drawcall", "Undefined mesh handle."))
            ELSE Goto(p, "dc_front", call[p])
    /\ UNCHANGED ncalls
    /\ LocksUnchanged

\* front(), first half: self.idx.read(), behind a swap_frames that waits.
IdxRead(p, from, to) ==
    /\ pc[p] = from
    /\ dpc # "swap"
    /\ idxReaders' = idxReaders \cup {p}
    /\ Goto(p, to, [call[p] EXCEPT !.f = idx])
    /\ UNCHANGED <<idx, frames, guard, poisoned, regs, dpc, dret, devLog, dev, snap, life,
                   cadence, ncalls, nticks, nswaps, hist, dimensions, tickLog, last, resized>>

\* front(), second half: the Mutex of the Frame whose index was read; the
\* read guard of idx is dropped once the Frame guard is returned.
MutexLock(p, from, to) ==
    /\ pc[p] = from
    /\ CanLock(call[p].f)
    /\ idxReaders' = idxReaders \ {p}
    /\ IF call[p].f \in poisoned
       THEN Finish(p, Panic(call[p].op, PoisonMsg)) /\ UNCHANGED guard
       ELSE Goto(p, to, call[p]) /\ guard' = [guard EXCEPT ![p] = call[p].f]
    /\ UNCHANGED <<idx, frames, poisoned, regs, dpc, dret, devLog, dev, snap, life, cadence,
                   ncalls, nticks, nswaps, hist, dimensions, tickLog, last, resized>>

\* submit_drawcall, line 225, behind a writer that waits for that registry.
DcShadersRead(p) == ~WriterWaits(DcRegistry) /\ DcShaders(p)

\* swap_frames: the driver asks for idx.write() and waits for the readers.
SwapWait ==
    /\ dpc = "idle"
    /\ nswaps < LiveSwaps
    /\ dpc' = "swap"
    /\ UNCHANGED <<idx, frames, guard, poisoned, idxReaders, regs, pc, call, ret, dret, devLog,
                   dev, snap, life, cadence, ncalls, nticks, nswaps, hist, dimensions,
                   tickLog, last, resized>>

SwapWrite ==
    /\ dpc = "swap"
    /\ idxReaders = {}
    /\ idx' = (idx + 1) % 2
    /\ dpc' = "idle"
    /\ nswaps' = nswaps + 1
    /\ cadence' = IF nswaps = 0 \/ cadence = "advanced" THEN "swapped" ELSE "irregular"
    /\ hist' = [hist EXCEPT !.wasFront = FrontIndex]
    /\ UNCHANGED <<frames, guard, poisoned, idxReaders, regs, pc, call, ret, dret, devLog,
                   dev, snap, life, ncalls, nticks, dimensions, tickLog, last, resized>>

\* advance, lines 113-115: the write guards up to the shaders'.
ReclaimToShaders ==
    /\ dpc = "reclaim"
    /\ Readers("shader") = {}
    /\ regs' = [k \in Kinds |->
                  IF k \in {"surface", "shader", "framebuffer", "mesh"}
                  THEN RegClear(regs[k]) ELSE regs[k]]
    /\ dpc' = "reclaim_textures"
    /\ UNCHANGED <<idx, frames, guard, poisoned, idxReaders, pc, call, ret, dret, devLog, dev,
                   snap, life, cadence, ncalls, nticks, nswaps, hist, dimensions, tickLog,
                   last, resized>>

\* advance, lines 116-121: the textures' and render buffers' write guards
\* and the return.
ReclaimTextures ==
    /\ dpc = "reclaim_textures"
    /\ Readers("texture") = {}
    /\ regs' = [k \in Kinds |->
                  IF k \in {"texture", "render_buffer"} THEN RegClear(regs[k]) ELSE regs[k]]
    /\ dret' = Ok("advance", 0)
    /\ dpc' = "idle"
    /\ nticks' = nticks + 1
    /\ tickLog' = <<"run_one_frame", "swap_buffers", "frame_info">>
    /\ UNCHANGED <<idx, frames, guard, poisoned, idxReaders, pc, call, ret, devLog, dev,
                   snap, life, cadence, ncalls, nswaps, hist, dimensions, last, resized>>

\* The steps that continue a call of producer p, and those that continue a
\* call of the driver.
ProducerStep(p) ==
    \/ UtRead(p)
    \/ IdxRead(p, "ut_front", "ut_lock")
    \/ MutexLock(p, "ut_lock", "ut_push")
    \/ UtPush(p)
    \/ DcChecks(p)
    \/ IdxRead(p, "dc_front", "dc_lock")
    \/ MutexLock(p, "dc_lock", "dc_shaders")
    \/ DcShadersRead(p)
    \/ DcLoop(p)

DriverStep ==
    \/ SwapWrite
    \/ AdvPre
    \/ \E n \in {0, 1} : AdvFlush(n)
    \/ AdvPost
    \/ AdvClear
    \/ ReclaimToShaders
    \/ ReclaimTextures

\* The application creates a surface, a mesh, a texture and a shader, in this
\* order, before its threads and the driver start.
SetUp == ncalls >= 4

NextLive ==
    \/ ncalls = 0 /\ CreateSurface
    \/ ncalls = 1 /\ \E loc \in SharedLocations : CreateMesh(loc, ValidMeshSetup, <<>>, <<>>)
    \/ ncalls = 2 /\ \E loc \in SharedLocations : CreateTexture(loc, <<>>)
    \/ ncalls = 3 /\ \E loc \in SharedLocations : CreateShader(loc, ValidShaderSetup)
    \/ \E p \in Producers :
          SetUp /\ LiveBegin(p, "ut_read", NewCall("update_texture", "texture", 1, 0, 0, 1, <<>>))
    \/ \E p \in Producers, u \in LiveUniforms :
          SetUp /\ LiveBegin(p, "dc_checks", NewCall("submit_drawcall", "shader", 1, 1, 3, 1, u))
    \/ SetUp /\ SwapWait
    \/ SetUp /\ nticks < LiveTicks /\ AdvBack
    \/ \E p \in Producers : ProducerStep(p)
    \/ DriverStep

\* Every thread that is inside a call keeps being scheduled.
LiveFairness ==
    /\ \A p \in Producers : WF_vars(ProducerStep(p))
    /\ WF_vars(DriverStep)

SpecLive == Init /\ [][NextLive]_vars /\ LiveFairness

\* ============================================== concurrent creates (SpecCreate)
\* create_shader, create_mesh and create_texture of several threads on one
\* shared Location, each call split at its lock acquisitions: the block under
\* the registry's write guard, then front() and the push.

\* A create call up to the release of the registry's write guard: the call's
\* own checks (err), then lookup and inc_rc (and return), or create.
BeginCreateShared(p, op, k, loc, st, err, spans) ==
    /\ CanBegin(p)
    /\ regs[k].n < MaxHandles
    /\ LET c == CreateShared(regs[k], loc, st)
       IN  IF err # ""
           THEN /\ Finish(p, Err(op, err))
                /\ UNCHANGED <<regs, life>>
           ELSE /\ regs' = [regs EXCEPT ![k] = c.reg]
                /\ IF c.fresh
                   THEN /\ Goto(p, "front", NewCall(op, k, c.h, 0, 0, 0, spans))
                        /\ UNCHANGED life
                   ELSE /\ Finish(p, Ok(op, c.h))
                        /\ life' = Count(k, c.h, "creates")
    /\ ncalls' = ncalls + 1
    /\ UNCHANGED <<idx, frames, guard, poisoned, idxReaders, dpc, dret, devLog, dev, snap,
                   cadence, nticks, nswaps, hist, dimensions, tickLog, last, resized>>

BeginCreateShader(p, loc, setup) ==
    BeginCreateShared(p, "create_shader", "shader", loc, ShaderStateOf(setup),
                      ShaderSetupError(setup), <<>>)

BeginCreateTexture(p, loc, data) ==
    BeginCreateShared(p, "create_texture", "texture", loc, "Ready", "", <<data>>)

InvalidShaderSetup == [vs |-> 0, fs |-> 1, uniform_variables |-> [n \in {"u_a"} |-> "F"]]

NextCreate ==
    \/ SwapFrames
    \/ \E p \in Producers, loc \in SharedLocations, setup \in MeshSetups, verts \in ByteSpans :
          BeginCreateMesh(p, loc, setup, verts, <<>>)
    \/ \E p \in Producers, loc \in SharedLocations,
          setup \in {ValidShaderSetup, InvalidShaderSetup} : BeginCreateShader(p, loc, setup)
    \/ \E p \in Producers, loc \in SharedLocations, data \in ByteSpans :
          BeginCreateTexture(p, loc, data)
    \/ \E p \in Producers : FrontRead(p)
    \/ \E p \in Producers : FrontLock(p)
    \/ \E p \in Producers : AppendAndReturn(p)

SpecCreate == Init /\ [][NextCreate]_vars

\* =============================================== staging and push (SpecTokens)
\* create_mesh and submit(VertexBufferUpdate) of several threads with the
\* staging of the bytes and the push of the task as two steps under the guard
\* that front() returned, against swap_frames and advance.

\* A push that takes the front Frame anew instead of the guard it staged under.
PushTargetFront(p) == FrontIndex

\* let mut frame = self.frames.front(): the push goes through the same guard
\* as the staging.
PushTarget(p) == guard[p]

\* frame.buf.extend_from_slice(..): the bytes go to the arena and the call
\* keeps the tokens.
StageBytes(p) ==
    /\ pc[p] = "append"
    /\ call[p].op \in {"create_mesh", "submit_update_buffer"}
    /\ LET buf == frames[guard[p]].buf
           e == BufExtendFromSlice(buf, Bytes(call[p].n))
           st == IF call[p].op = "create_mesh"
                 THEN StageSpans(buf, call[p].spans, <<>>)
                 ELSE [buf |-> e.buf, ptrs |-> <<<<e.ptr>>>>]
       IN  /\ frames' = [frames EXCEPT ![guard[p]].buf = st.buf]
           /\ Goto(p, "push", [call[p] EXCEPT !.spans = st.ptrs])
    /\ UNCHANGED <<idx, guard, poisoned, idxReaders, regs, dpc, dret, devLog, dev, snap,
                   life, cadence, ncalls, nticks, nswaps, hist, dimensions, tickLog, last, resized>>

\* frame.pre.push(task) / frame.tasks.push(..) with the tokens, the release of
\* the guard and the return.
PushStaged(p) ==
    /\ pc[p] = "push"
    /\ LET c == call[p]
       IN  /\ frames' = [frames EXCEPT ![PushTarget(p)] =
                            IF c.op = "create_mesh"
                            THEN PushPre(@, PreTask("CreateMesh", "mesh", c.h, c.spans))
                            ELSE PushTask(@, OrderedTask(c.s, c.o, "UpdateVertexBuffer", 0,
                                                         "mesh", c.h, c.spans[1][1]))]
           /\ Finish(p, Ok(c.op, IF IsCreateOp(c.op) THEN c.h ELSE 0))
           /\ life' = IF IsCreateOp(c.op)
                      THEN [life EXCEPT ![c.k][c.h] = [@ EXCEPT !.creates = @ + 1, !.pres = @ + 1]]
                      ELSE life
    /\ guard' = [guard EXCEPT ![p] = NoFrame]
    /\ UNCHANGED <<idx, poisoned, idxReaders, regs, dpc, dret, devLog, dev, snap, cadence,
                   ncalls, nticks, nswaps, hist, dimensions, tickLog, last, resized>>

NextTokens ==
    \/ SwapFrames
    \/ \E n \in 0..NumDeviceCalls(frames[BackIndex]) : Advance(n)
    \/ Quiet /\ CreateSurface
    \/ \E p \in Producers, loc \in SharedLocations, idxes \in {<<>>, <<1>>} :
          BeginCreateMesh(p, loc, ValidMeshSetup, <<1>>, idxes)
    \/ \E p \in Producers, s \in Handles, mesh \in Handles : BeginSubmitUpdate(p, s, 3, mesh, 1)
    \/ \E p \in Producers : CheckMesh(p)
    \/ \E p \in Producers : FrontRead(p)
    \/ \E p \in Producers : FrontLock(p)
    \/ \E p \in Producers : StageBytes(p)
    \/ \E p \in Producers : PushStaged(p)

SpecTokens == Init /\ [][NextTokens]_vars

\* ============================================ built-in factories (SpecFactory)
\* scene::factory: shader::{pbr, phong, color, undefined} and mesh::cube. Each
\* looks its Location up and returns the handle found; only on a miss does it
\* build its setup and call create_shader / create_mesh on that Location.

\* lookup_shader_from, lookup_mesh_from, lookup_texture_from.
LookupFrom(k, loc) == RegLookup(regs[k], loc)

Factories == {"pbr", "phong", "color", "undefined", "cube"}

FactoryKind(name) == IF name = "cube" THEN "mesh" ELSE "shader"

\* Location::shared(0, PBR) and the like: one constant per factory.
FactoryLocation(name) ==
    CASE name = "pbr" -> "__Core/Scene/Shader/PBR"
      [] name = "phong" -> "__Core/Scene/Shader/PHONG"
      [] name = "color" -> "__Core/Scene/Shader/COLOR"
      [] name = "undefined" -> "__Core/Scene/Shader/UNDEFINED"
      [] name = "cube" -> "__Core/Scene/Mesh/CUBE"

\* The create call at the end of a factory: its setup is a constant that
\* passes the checks of create_shader / create_mesh, the cube with vertex and
\* index bytes of the declared lengths.
FactoryCreate(name) ==
    IF name = "cube"
    THEN CreateMeshOutcome(FactoryLocation(name), ValidMeshSetup, <<1>>, <<1>>)
    ELSE CreateShaderOutcome(FactoryLocation(name), ValidShaderSetup)

\* A factory without the lookup: every call goes to create_*.
FactoryAlwaysCreates(name) == FactoryCreate(name)

FactoryOutcome(name) ==
    IF LookupFrom(FactoryKind(name), FactoryLocation(name)) # 0
    THEN Outcome(regs, frames,
                 Ok(name, LookupFrom(FactoryKind(name), FactoryLocation(name))), FALSE)
    ELSE FactoryCreate(name)

Factory(name) ==
    /\ CanCall(Caller)
    /\ \/ LookupFrom(FactoryKind(name), FactoryLocation(name)) # 0
       \/ regs[FactoryKind(name)].n < MaxHandles
    /\ \E out \in {FactoryOutcome(name)} :
          Return(Caller, out) /\ life' = LifeCreate(FactoryKind(name), out)

NextFactory ==
    \/ SwapFrames
    \/ \E name \in Factories : Factory(name)
    \/ \E k \in {"shader", "mesh"}, h \in Handles : Delete(k, h)

SpecFactory == Init /\ [][NextFactory]_vars

\* ================================================================= properties

\* ---------------------------------------------------------------------- C1
\* C1: in every dispatch the device calls of all pre-tasks (in the Frame's
\* order) come before the single flush call, the flush call receives the
\* whole ordered-task list, and every device call of a post-task comes after
\* the flush call.
PhaseRank(ph) == CASE ph = "pre" -> 0 [] ph = "flush" -> 1 [] ph = "post" -> 2
FlushAt == {i \in DOMAIN devLog : devLog[i].phase = "flush"}
SameTask(c, task, name) == c.k = task.k /\ c.h = task.h /\ c.call = name

C1_PhaseOrder ==
    /\ Cardinality(FlushAt) <= 1
    /\ \A i, j \in DOMAIN devLog : i < j => PhaseRank(devLog[i].phase) <= PhaseRank(devLog[j].phase)
    /\ \A i \in DOMAIN devLog : devLog[i].phase = "post" => \E j \in FlushAt : j < i
    /\ \A j \in FlushAt :
        /\ j = Len(snap.pre) + 1
        /\ \A i \in 1..Len(snap.pre) :
              devLog[i].ok /\ SameTask(devLog[i], snap.pre[i], PreCallName(snap.pre[i].t))
        /\ devLog[j].tasks = snap.tasks
        /\ \A i \in DOMAIN devLog :
              i > j => /\ i - j <= Len(snap.post)
                       /\ SameTask(devLog[i], snap.post[i - j], PostCallName(snap.post[i - j].t))

\* A dispatch of a Frame holding pre-, ordered and post-tasks ran to the end.
C1_Witness ==
    /\ dret.tag = "Ok"
    /\ snap.pre # <<>> /\ snap.tasks # <<>> /\ snap.post # <<>>
    /\ Len(devLog) = NumDeviceCalls(snap)

C6_RefCountedTeardown ==
    \A k \in SharedKinds, h \in Handles :
        life[k][h].creates >= 1
            => life[k][h].posts = (IF life[k][h].deletes >= life[k][h].creates THEN 1 ELSE 0)

C6_Witness ==
    \E k \in SharedKinds, h \in Handles :
        life[k][h].creates = 2 /\ life[k][h].deletes = 2 /\ life[k][h].posts = 1

\* ---------------------------------------------------------------------- C7
\* The create calls on a shared Location, by resource kind and input.
CreateInputs(k) ==
    CASE k = "shader" -> {<<setup>> : setup \in ShaderSetups}
      [] k = "mesh" -> {<<setup, verts, idxes>> : setup \in MeshSetups, verts \in ByteSpans,
                                                    idxes \in ByteSpans}
      [] k = "texture" -> {<<data>> : data \in ByteSpans}

CreateOutcomeOf(k, loc, in) ==
    CASE k = "shader" -> CreateShaderOutcome(loc, in[1])
      [] k = "mesh" -> CreateMeshOutcome(loc, in[1], in[2], in[3])
      [] k = "texture" -> CreateTextureOutcome(loc, in[1])

PassesValidation(k, in) ==
    CASE k = "shader" -> ShaderSetupError(in[1]) = ""
      [] k = "mesh" -> MeshBoundsError(in[1], in[2], in[3]) = ""
      [] k = "texture" -> TRUE

Deduplicates(k, loc, out) ==
    LET h == LookupFrom(k, loc)
    IN  /\ out.res = Ok(out.res.op, h)
        /\ out.regs[k].slots[h].rc = regs[k].slots[h].rc + 1
        /\ RegLookup(out.regs[k], loc) = h
        /\ out.frames = frames

LookupStable ==
    \A k \in SharedKinds, h \in Handles :
        life[k][h].creates > life[k][h].deletes
            => /\ RegIsAlive(regs[k], h)
               /\ LookupFrom(k, regs[k].slots[h].loc) = h

\* C7 as stated: EVERY create call made while L maps to a live slot returns the
\* first handle and raises its reference count by exactly 1.
C7_DedupEveryCall ==
    /\ LookupStable
    /\ \A k \in SharedKinds, loc \in SharedLocations :
          LookupFrom(k, loc) # 0
              => \A in \in CreateInputs(k) : Deduplicates(k, loc, CreateOutcomeOf(k, loc, in))

\* C7 amended: every create call that passes the call's own validation (shader
\* setup checks, mesh byte-span bounds and setup.validate()) and is made while L
\* maps to a live slot returns the first handle and raises its reference count
\* by exactly 1; lookup_*_from(L) returns that handle from the first create
\* until the last delete.
C7_DedupValidCalls ==
    /\ LookupStable
    /\ \A k \in SharedKinds, loc \in SharedLocations :
          LookupFrom(k, loc) # 0
              => \A in \in CreateInputs(k) :
                    PassesValidation(k, in) => Deduplicates(k, loc, CreateOutcomeOf(k, loc, in))

C7_Witness ==
    \E k \in SharedKinds, h \in Handles :
        /\ life[k][h].creates = 2 /\ life[k][h].deletes = 0
        /\ RegIsAlive(regs[k], h) /\ regs[k].slots[h].rc = 2
        /\ ret[Caller] = Ok(ret[Caller].op, h)

\* ---------------------------------------------------------------------- C8
\* The supplied uniforms of dc, against the shader state that dc binds.
BoundShader(dc) == RegGet(regs["shader"], dc.shader)
Declared(dc, i) == dc.uniforms[i][1] \in DOMAIN BoundShader(dc).uniform_variables
Matches(dc, i) == Declared(dc, i) /\ BoundShader(dc).uniform_variables[dc.uniforms[i][1]] = dc.uniforms[i][2]
TaskCount(fs) == Len(fs[FrontIndex].tasks)

\* C8: submit of a draw call whose uniform list contains a name that the bound
\* shader does not declare returns an error to the caller, and the front
\* Frame's ordered-task count is the same after the call as before it.
C8_UndeclaredUniformIsError ==
    \A s \in Handles, o \in OrderKeys, dc \in DrawCalls :
        (/\ RegIsAlive(regs["shader"], dc.shader)
         /\ \E i \in DOMAIN dc.uniforms : ~Declared(dc, i))
            => /\ SubmitDrawcallOutcome(s, o, dc).res.tag = "Err"
               /\ TaskCount(SubmitDrawcallOutcome(s, o, dc).frames) = TaskCount(frames)

\* ---------------------------------------------------------------------- C9
\* The (name, value) pairs that a draw task carries, read back from the arena.
CarriedPairs(f, task) ==
    LET pairs == BufAsSlice(f.buf, task.ptr)
    IN  [i \in DOMAIN pairs |->
            <<pairs[i].n, BufAsSlice(f.buf, [off |-> pairs[i].off, len |-> pairs[i].len])[1].v>>]

PushesOneDrawTask(out, s, o, dc) ==
    LET f == out.frames[FrontIndex]
        t == f.tasks[Len(f.tasks)]
    IN  /\ out.res.tag = "Ok"
        /\ Len(f.tasks) = TaskCount(frames) + 1
        /\ SubSeq(f.tasks, 1, TaskCount(frames)) = frames[FrontIndex].tasks
        /\ t.t = "DrawCall" /\ t.s = s /\ t.o = o /\ t.shader = dc.shader /\ t.h = dc.mesh
        /\ CarriedPairs(f, t) = dc.uniforms

\* C9: a draw call in which some supplied uniform's type differs from the type
\* the shader declares for that name returns an error and pushes no ordered
\* task, wherever the offending uniform stands in the list; a draw call whose
\* uniforms are all declared with matching types pushes exactly one ordered
\* task carrying all supplied pairs in supplied order.
C9_UniformTypeCheck ==
    \A s \in Handles, o \in OrderKeys, dc \in DrawCalls :
        RegIsAlive(regs["shader"], dc.shader)
            => /\ (\E i \in DOMAIN dc.uniforms : Declared(dc, i) /\ ~Matches(dc, i))
                    => /\ SubmitDrawcallOutcome(s, o, dc).res.tag = "Err"
                       /\ SubmitDrawcallOutcome(s, o, dc).frames[FrontIndex].tasks
                              = frames[FrontIndex].tasks
               /\ (/\ \A i \in DOMAIN dc.uniforms : Matches(dc, i)
                   /\ RegIsAlive(regs["surface"], s)
                   /\ RegIsAlive(regs["mesh"], dc.mesh)
                   /\ ~FrontPoisoned)
                    => PushesOneDrawTask(SubmitDrawcallOutcome(s, o, dc), s, o, dc)

\* --------------------------------------------------------------------- C10
BufferTasks == {"UpdateVertexBuffer", "UpdateIndexBuffer"}

\* Every Submission Facade call with every input, as its outcome in this state.
FacadeOutcomes ==
    {CreateUniqueOutcome("create_surface", "surface")}
    \cup {DeleteOutcome(k, h) : k \in Kinds, h \in Handles}
    \cup {CreateShaderOutcome(loc, setup) : loc \in SharedLocations, setup \in ShaderSetups}
    \cup {CreateMeshOutcome(loc, in[1], in[2], in[3]) :
             loc \in SharedLocations, in \in CreateInputs("mesh")}
    \cup {CreateTextureOutcome(loc, data) : loc \in SharedLocations, data \in ByteSpans}
    \cup {SubmitDrawcallOutcome(s, o, dc) : s \in Handles, o \in OrderKeys, dc \in DrawCalls}
    \cup {SubmitUpdateBufferOutcome(t, s, o, h, n) :
             t \in BufferTasks, s \in Handles, o \in OrderKeys, h \in Handles, n \in 1..MaxBytes}
    \cup {SubmitUpdateTextureOutcome(s, o, h, n) :
             s \in Handles, o \in OrderKeys, h \in Handles, n \in 1..MaxBytes}
    \cup {UpdateBufferOutcome(t, h, n) : t \in BufferTasks, h \in Handles, n \in 1..MaxBytes}
    \cup {UpdateTextureOutcome(h, n) : h \in Handles, n \in 1..MaxBytes}
    \cup {SubmitSetScissorOutcome(s, o) : s \in Handles, o \in OrderKeys}

ErrOutcomes == {out \in FacadeOutcomes : out.res.tag = "Err"}

SameLists(f, g) == f.pre = g.pre /\ f.tasks = g.tasks /\ f.post = g.post
IsPrefix(a, b) == Len(a) <= Len(b) /\ SubSeq(b, 1, Len(a)) = a

\* C10 as stated: every facade call that returns an error leaves every registry
\* and the front Frame, its arena length included, as they were.
C10_ErrorLeavesAllUnmodified ==
    \A out \in ErrOutcomes :
        /\ out.regs = regs
        /\ SameLists(out.frames[FrontIndex], frames[FrontIndex])
        /\ Len(out.frames[FrontIndex].buf) = Len(frames[FrontIndex].buf)

\* C10 amended: every facade call that returns an error leaves every registry,
\* the back Frame and the front Frame's pre, ordered and post lists as they
\* were; the arena is unchanged too, except that a draw-call submission which
\* fails on a uniform may leave the values of the uniforms accepted before it
\* appended to the arena (the old arena is a prefix of the new one).
C10_ErrorLeavesListsUnmodified ==
    \A out \in ErrOutcomes :
        /\ out.regs = regs
        /\ out.frames[BackIndex] = frames[BackIndex]
        /\ SameLists(out.frames[FrontIndex], frames[FrontIndex])
        /\ IsPrefix(frames[FrontIndex].buf, out.frames[FrontIndex].buf)
        /\ out.res.op # "submit_drawcall"
              => out.frames[FrontIndex].buf = frames[FrontIndex].buf

\* A draw call failed on its second uniform after the first one was staged.
C10_Witness ==
    /\ ret[Caller] = Err("submit_drawcall", "Unmatched uniform variable")
    /\ frames[FrontIndex].tasks = <<>>
    /\ frames[FrontIndex].buf # <<>>
    /\ \A k \in Kinds : regs[k].n <= 1

\* ---------------------------------------------------------------------- C3
\* C3: the driver and a producer never hold the guard of the same Frame at
\* once, and every change of a Frame is made by the thread that holds its
\* guard: a Frame the driver holds (dispatching or clearing it) is changed by
\* driver steps only, also when swap_frames ran while a producer held a guard.
ByDriver(f) == guard[Driver] = f /\ dpc' # dpc
ByProducer(f) ==
    \E p \in Producers : guard[p] = f /\ guard'[p] = NoFrame /\ guard[Driver] # f

C3_FrameGuardExclusion ==
    /\ [](\A f \in FrameIds : Cardinality(Holders(f)) <= 1)
    /\ [][\A f \in FrameIds : frames'[f] # frames[f] => ByDriver(f) \/ ByProducer(f)]_vars

\* The driver is dispatching a Frame with ordered tasks while a producer holds
\* the guard of the other Frame, after a swap.
C3_Witness ==
    /\ nswaps >= 1
    /\ dpc = "flush" /\ frames[Held].tasks # <<>>
    /\ \E p \in Producers : pc[p] = "append" /\ guard[p] = FrontIndex

\* ---------------------------------------------------------------------- C4
\* The ordered tasks handed to the device by the flush call of the current
\* dispatch.
Flushed == UNION {{devLog[i].tasks[j] : j \in DOMAIN devLog[i].tasks} : i \in FlushAt}

\* C4: when ordered tasks are handed to the device, the creation pre-task of
\* every handle they reference (surface and mesh) has been dispatched, in the
\* same dispatch or an earlier one.
C4_CreatedBeforeUse ==
    \A t \in Flushed : t.s \in dev["surface"].created /\ t.h \in dev[t.k].created

\* ---------------------------------------------------------------------- C5
\* C5: no ordered task handed to the device names a handle whose deletion
\* post-task was executed by an earlier dispatch (read right after the flush,
\* before the post-tasks of the same dispatch run).
C5_NoUseAfterDelete ==
    dpc = "post"
        => \A t \in Flushed : t.s \notin dev["surface"].deleted /\ t.h \notin dev[t.k].deleted

\* --------------------------------------------------------------------- C11
Alive(k, h) == RegIsAlive(regs[k], h)
Rejected(out) == out.res.tag = "Err" /\ out.frames = frames
SurfaceRejected(out) == Rejected(out) /\ out.res.msg = "Undefined surface handle."

\* C11: every submit and update_* call that references a surface, mesh, shader
\* or texture handle that is not alive returns an error and appends nothing to
\* the front Frame; submit with a dead surface handle fails on the surface
\* check for every command kind.
C11_DeadHandleIsError ==
    /\ \A s \in Handles, o \in OrderKeys, dc \in DrawCalls :
          /\ ~Alive("surface", s) => SurfaceRejected(SubmitDrawcallOutcome(s, o, dc))
          /\ (~Alive("mesh", dc.mesh) \/ ~Alive("shader", dc.shader))
                => Rejected(SubmitDrawcallOutcome(s, o, dc))
    /\ \A s \in Handles, o \in OrderKeys, h \in Handles, n \in 1..MaxBytes :
          /\ \A t \in BufferTasks :
                /\ ~Alive("surface", s) => SurfaceRejected(SubmitUpdateBufferOutcome(t, s, o, h, n))
                /\ ~Alive("mesh", h) => Rejected(SubmitUpdateBufferOutcome(t, s, o, h, n))
                /\ ~Alive("mesh", h) => Rejected(UpdateBufferOutcome(t, h, n))
          /\ ~Alive("surface", s) => SurfaceRejected(SubmitUpdateTextureOutcome(s, o, h, n))
          /\ ~Alive("texture", h) => Rejected(SubmitUpdateTextureOutcome(s, o, h, n))
          /\ ~Alive("texture", h) => Rejected(UpdateTextureOutcome(h, n))
          /\ ~Alive("surface", s) => SurfaceRejected(SubmitSetScissorOutcome(s, o))

\* --------------------------------------------------------------------- C12
NotReady(h) == Alive("texture", h) /\ RegGet(regs["texture"], h) = "NotReady"
Ready(h) == Alive("texture", h) /\ RegGet(regs["texture"], h) = "Ready"
Silent(out) == out.res.tag = "Ok" /\ out.frames = frames /\ out.regs = regs
InvalidHandle(out) == out.res.tag = "Err" /\ out.res.msg = "InvalidHandle" /\ out.frames = frames

\* The front Frame of out is the front Frame of now with exactly one more
\* task in the given list, which names texture h; the other lists are as they were.
OneMoreTask(out, list, h) ==
    LET f == frames[FrontIndex]
        g == out.frames[FrontIndex]
    IN  /\ out.res.tag = "Ok"
        /\ Len(g[list]) = Len(f[list]) + 1
        /\ SubSeq(g[list], 1, Len(f[list])) = f[list]
        /\ g[list][Len(g[list])].t = "UpdateTexture" /\ g[list][Len(g[list])].h = h
        /\ \A l \in {"pre", "tasks", "post"} \ {list} : g[l] = f[l]
        /\ out.frames[BackIndex] = frames[BackIndex]

\* C12: update_texture and submit(TextureUpdate) on a live texture that is
\* NotReady return success and append no task and no arena byte; on a Ready
\* texture they append exactly one task; on a dead handle they return an
\* InvalidHandle error.
C12_TextureReadiness ==
    \A h \in Handles, n \in 1..MaxBytes :
        /\ NotReady(h) => Silent(UpdateTextureOutcome(h, n))
        /\ Ready(h) => OneMoreTask(UpdateTextureOutcome(h, n), "pre", h)
        /\ ~Alive("texture", h) => InvalidHandle(UpdateTextureOutcome(h, n))
        /\ \A s \in Handles, o \in OrderKeys :
              Alive("surface", s) =>
                 /\ NotReady(h) => Silent(SubmitUpdateTextureOutcome(s, o, h, n))
                 /\ Ready(h) => OneMoreTask(SubmitUpdateTextureOutcome(s, o, h, n), "tasks", h)
                 /\ ~Alive("texture", h) => InvalidHandle(SubmitUpdateTextureOutcome(s, o, h, n))

\* update_texture returned success on a NotReady texture: the Frames are empty.
C12_Witness ==
    /\ ret[Caller] = Ok("update_texture", 0)
    /\ \E h \in Handles : NotReady(h)
    /\ \A f \in FrameIds : frames[f] = EmptyFrame

\* --------------------------------------------------------------------- C13
Oversize(setup, verts, idxes) ==
    \/ verts # <<>> /\ verts[1] > setup.vertex_buffer_len
    \/ idxes # <<>> /\ idxes[1] > setup.index_buffer_len

\* C13: create_mesh with a vertex span longer than setup.vertex_buffer_len()
\* or an index span longer than setup.index_buffer_len() returns an error
\* before any handle is allocated: the mesh registry and the Frames are as
\* they were, also when the Location already maps to a live mesh.
C13_MeshBoundsBeforeAllocation ==
    \A loc \in SharedLocations, in \in CreateInputs("mesh") :
        Oversize(in[1], in[2], in[3]) =>
            LET out == CreateMeshOutcome(loc, in[1], in[2], in[3])
            IN  /\ out.res = Err("create_mesh", "Out of bounds!")
                /\ out.regs = regs
                /\ out.frames = frames

\* An oversize create_mesh was refused on a Location that maps to a live mesh.
C13_Witness ==
    /\ ret[Caller] = Err("create_mesh", "Out of bounds!")
    /\ \E loc \in SharedLocations : LookupFrom("mesh", loc) \in Handles
                                    /\ Alive("mesh", LookupFrom("mesh", loc))

\* --------------------------------------------------------------------- C14
Keys(tasks) == [i \in DOMAIN tasks |-> <<tasks[i].s, tasks[i].o>>]

\* ord runs through every position of tasks once, by non-decreasing
\* (surface, order), positions of one key in increasing order.
StableByKey(ord, tasks) ==
    /\ Len(ord) = Len(tasks)
    /\ {ord[a] : a \in DOMAIN ord} = DOMAIN tasks
    /\ \A a, b \in DOMAIN ord :
          a < b => /\ ~KeyLess(tasks[ord[b]], tasks[ord[a]])
                   /\ Keys(tasks)[ord[a]] = Keys(tasks)[ord[b]] => ord[a] < ord[b]

\* Producers only ever append to a Frame's ordered list; the driver empties it.
AppendOnly ==
    \A f \in FrameIds : \/ IsPrefix(frames[f].tasks, frames'[f].tasks)
                        \/ frames'[f].tasks = <<>>

\* C14: the Frame hands flush its ordered-task list in exact append order,
\* and the device executes those tasks by non-decreasing (surface, order)
\* key, tasks of one key in append order.
C14_StableOrderedExecution ==
    /\ [](\A j \in FlushAt : /\ devLog[j].tasks = snap.tasks
                             /\ StableByKey(DeviceOrder(devLog[j].tasks), devLog[j].tasks))
    /\ [][AppendOnly]_vars

\* Tasks appended with keys (s1,5), (s1,3), (s1,5) were flushed: the device
\* runs the second, then the first, then the third.
C14_Witness ==
    \E j \in FlushAt :
        /\ Keys(devLog[j].tasks) = << <<1, 5>>, <<1, 3>>, <<1, 5>> >>
        /\ DeviceOrder(devLog[j].tasks) = <<2, 1, 3>>

\* --------------------------------------------------------------------- C18
FailedAt == {i \in DOMAIN devLog : ~devLog[i].ok}

\* The device holds the effect of every create and delete call that succeeded.
EffectsKept ==
    \A i \in DOMAIN devLog :
        devLog[i].ok =>
            /\ IsCreateCall(devLog[i]) => devLog[i].h \in dev[devLog[i].k].created
            /\ devLog[i].phase = "post" => devLog[i].h \in dev[devLog[i].k].deleted

\* C18: when the device fails on a pre-task, on flush or on a post-task,
\* dispatch makes no further device call for that Frame and advance returns
\* the error to its caller; the device effects of the calls that succeeded
\* before it are kept.
C18_DispatchStopsAtFailure ==
    /\ \A i \in FailedAt : i = Len(devLog)
    /\ FailedAt # {} => dret = Err("advance", "device")
    /\ dret = Ok("advance", 0) => FailedAt = {}
    /\ EffectsKept

\* A dispatch failed after a creation succeeded on the device.
C18_Witness ==
    /\ dret = Err("advance", "device")
    /\ \E i \in FailedAt : i > 1 /\ IsCreateCall(devLog[1])
                           /\ devLog[1].h \in dev[devLog[1].k].created

\* --------------------------------------------------------------------- C19
NumUniforms(setup) == Cardinality(DOMAIN setup.uniform_variables)
BadShaderSetup(setup) ==
    setup.vs = 0 \/ setup.fs = 0 \/ NumUniforms(setup) > MAX_UNIFORM_VARIABLES

Gone(w) == w.dimensions = <<>> \/ w.dimensions_in_pixels = <<>>

\* C20: if the window's dimensions() or dimensions_in_pixels() returns none,
\* advance returns WindowNotExist without calling the device or any other
\* collaborator, without dispatching or clearing a Frame, and without
\* changing the shared dimensions or a registry.
C20_WindowGone ==
    \A w \in Windows, fail \in AdvanceFailures, n \in 0..NumDeviceCalls(frames[BackIndex]) :
        Gone(w) =>
            LET out == AdvanceOutcome(w, fail, n)
            IN  /\ out.res = Err("advance", "WindowNotExist")
                /\ out.devLog = <<>> /\ out.tickLog = <<>> /\ out.dev = dev
                /\ out.frames = frames /\ ~out.cleared
                /\ out.dimensions = dimensions
                /\ out.regs = regs

\* advance found the window gone, one tick after it had stored new sizes,
\* while the back Frame held tasks and a dead slot waited to be reclaimed.
C20_Witness ==
    /\ dret = Err("advance", "WindowNotExist")
    /\ devLog = <<>>
    /\ dimensions # <<SteadyWindow.dimensions[1], SteadyWindow.dimensions_in_pixels[1]>>
    /\ frames[BackIndex].pre # <<>>
    /\ \E h \in DOMAIN regs["surface"].slots : ~Alive("surface", h)

\* --------------------------------------------------------------------- C15
\* A step that is one call of advance; a step that is one call of swap_frames.
AdvanceStep == nticks' = nticks + 1
SwapStep == nswaps' = nswaps + 1

\* C15 as stated: one call of advance toggles the role index before it
\* dispatches, so it dispatches the Frame that was front when it was called.
C15_AdvanceTogglesIndex ==
    [][AdvanceStep => idx' # idx /\ snap' = frames[FrontIndex]]_vars

\* C15 amended: advance never toggles the role index; swap_frames, a call of
\* its own, toggles it once and touches no Frame. What advance dispatches is the Frame
\* that is back when it is called, which is the Frame that was front before
\* the latest swap_frames, and the tasks appended by the calls made between
\* the swap_frames before that one and it are in no other Frame.
C15_SwapThenAdvance ==
    /\ [][AdvanceStep => idx' = idx /\ (devLog' # <<>> => snap' = frames[BackIndex])]_vars
    /\ [][SwapStep => idx' = 1 - idx /\ frames' = frames]_vars
    /\ [](/\ nswaps > 0 => BackIndex = hist.wasFront
          /\ (nswaps - 1) \notin hist.born[FrontIndex]
          /\ nswaps \notin hist.born[BackIndex])

\* A tick of one swap_frames and one advance has dispatched ordered tasks
\* that were appended before its swap_frames.
C15_Witness ==
    /\ cadence = "advanced" /\ nswaps = 1 /\ nticks = 1
    /\ dret = Ok("advance", 0)
    /\ snap.tasks # <<>>
    /\ \E j \in FlushAt : devLog[j].tasks = snap.tasks

\* --------------------------------------------------------------------- C17
\* C17: a producer never holds more than one Frame lock or registry lock at a
\* time during one facade call: the registry guard of the validation is
\* released before the front Frame lock is taken, and no registry lock is
\* taken while the front Frame lock is held.
C17_OneLockAtATime ==
    \A p \in Producers : Cardinality(LocksHeld(p)) <= 1

\* --------------------------------------------------------------------- C16
\* The device calls log hand every task of Frame f once: one call per
\* pre-task, the whole ordered list in the one flush, one call per post-task.
HandedOnce(log, f) ==
    /\ Len(log) = NumDeviceCalls(f)
    /\ \A i \in DOMAIN f.pre : SameTask(log[i], f.pre[i], PreCallName(f.pre[i].t))
    /\ log[Len(f.pre) + 1].tasks = f.tasks
    /\ \A i \in DOMAIN f.post :
          SameTask(log[Len(f.pre) + 1 + i], f.post[i], PostCallName(f.post[i].t))

\* The run so far is a sequence of ticks, each one swap_frames followed by
\* one advance, and no advance has failed.
RegularTicks == cadence = "advanced" /\ ~hist.failed

\* C16: in every run where no dispatch fails and each tick is one swap_frames
\* followed by one advance, every appended task is handed to the device
\* exactly once, in the first dispatch after the first swap that follows its
\* append: the Frame a tick dispatches holds the tasks appended between the
\* previous swap and the tick's swap, all of them and no other, hands each
\* once, and is empty afterwards.
C16_OneTickLatency ==
    [][(AdvanceStep /\ RegularTicks') =>
            /\ hist.born[BackIndex] \subseteq {nswaps - 1}
            /\ (nswaps - 1) \notin hist.born[FrontIndex]
            /\ HandedOnce(devLog', frames[BackIndex])
            /\ SameLists(frames'[BackIndex], EmptyFrame)]_vars

\* --------------------------------------------------------------------- C21
\* A step in which advance ran Frame::dispatch on the back Frame.
DispatchStep == AdvanceStep /\ devLog' # <<>>

\* C21: when advance returns, whether its dispatch completed or failed, the
\* back Frame is Empty: its pre, ordered and post lists are empty and its
\* arena length is zero.
C21_BackEmptyAfterAdvance ==
    [][DispatchStep => /\ SameLists(frames'[BackIndex], EmptyFrame)
                       /\ Len(frames'[BackIndex].buf) = 0]_vars

\* --------------------------------------------------------------------- C22
CreateOpOf(k) ==
    CASE k = "shader" -> "create_shader" [] k = "mesh" -> "create_mesh"
      [] k = "texture" -> "create_texture"

\* The producers between the registry block of a create of (k, h) and its push.
InFlight(k, h) ==
    {p \in Producers : pc[p] \in {"front", "lock", "append"}
                       /\ call[p].op = CreateOpOf(k) /\ call[p].h = h}

\* The creation pre-tasks for (k, h) in the two Frames.
CreationTasks(k, h) ==
    {<<f, i>> \in FrameIds \X (1..MaxCalls) :
        i \in DOMAIN frames[f].pre /\ frames[f].pre[i].k = k /\ frames[f].pre[i].h = h
        /\ frames[f].pre[i].t = CreateTaskName(k)}

RECURSIVE SumRc(_, _)
SumRc(r, S) ==
    IF S = {} THEN 0
    ELSE LET h == CHOOSE x \in S : TRUE IN r.slots[h].rc + SumRc(r, S \ {h})

\* The arena bytes the tokens of a list of pre-tasks stand for.
RECURSIVE TokenBytes(_)
TokenBytes(ptrs) ==
    IF ptrs = <<>> THEN 0
    ELSE (IF Head(ptrs) = <<>> THEN 0 ELSE Head(ptrs)[1].len) + TokenBytes(Tail(ptrs))

RECURSIVE StagedBy(_)
StagedBy(pre) ==
    IF pre = <<>> THEN 0 ELSE TokenBytes(Head(pre).ptrs) + StagedBy(Tail(pre))

\* The calls of kind k that returned a handle all returned the same one.
OneHandle(k) ==
    /\ \A p, q \in Producers :
          (ret[p].op = CreateOpOf(k) /\ ret[p].tag = "Ok"
           /\ ret[q].op = CreateOpOf(k) /\ ret[q].tag = "Ok") => ret[p].h = ret[q].h
    /\ Cardinality({h \in Handles : life[k][h].creates > 0}) <= 1
    /\ \A h \in Handles : life[k][h].creates > 0 => RegIsAlive(regs[k], h)

\* One creation pre-task per slot, pushed by the call that created the slot;
\* every byte of an arena belongs to the pre-task that staged it.
OnePreTask(k) ==
    /\ Cardinality(DOMAIN regs[k].slots) <= 1
    /\ \A h \in DOMAIN regs[k].slots :
          /\ Cardinality(InFlight(k, h)) <= 1
          /\ Cardinality(CreationTasks(k, h)) + Cardinality(InFlight(k, h)) = 1
    /\ \A f \in FrameIds : Len(frames[f].buf) = StagedBy(frames[f].pre)

AllReturned == \A p \in Producers : pc[p] = "idle"

\* C22 as stated: with the creates of several threads on one shared Location
\* interleaved in every way, all calls return the same handle, the reference
\* counts add up to the number of calls made, and one creation pre-task per
\* handle is pushed in total.
C22_EveryCallCounted ==
    /\ \A k \in SharedKinds : OneHandle(k) /\ OnePreTask(k)
    /\ \A p \in Producers : ret[p].op # "" => ret[p].tag = "Ok"
    /\ AllReturned =>
          SumRc(regs["shader"], DOMAIN regs["shader"].slots)
          + SumRc(regs["mesh"], DOMAIN regs["mesh"].slots)
          + SumRc(regs["texture"], DOMAIN regs["texture"].slots) = ncalls

\* C22 amended: with the creates of several threads on one shared Location
\* interleaved in every way, all calls that pass their own validation return
\* the same handle, the slot's reference count equals the number of those
\* calls (the ones that returned and the one still on its way to the push),
\* and exactly one creation pre-task for the handle is pushed in total, by the
\* call that created the slot; a deduplicated create pushes no pre-task and
\* stages no bytes. A call that fails its validation returns an error and is
\* not counted.
C22_ValidCallsCounted ==
    \A k \in SharedKinds :
        /\ OneHandle(k)
        /\ OnePreTask(k)
        /\ \A h \in DOMAIN regs[k].slots :
              regs[k].slots[h].rc = life[k][h].creates + Cardinality(InFlight(k, h))

\* After a swap, a create was deduplicated and returned while the call that
\* created the slot, holding the front guard, had not yet pushed its pre-task.
C22_Witness ==
    \E p, q \in Producers, h \in Handles :
        /\ pc[p] = "append" /\ call[p].op = "create_mesh" /\ call[p].h = h
        /\ pc[q] = "idle" /\ ret[q] = Ok("create_mesh", h)
        /\ regs["mesh"].slots[h].rc = 2
        /\ CreationTasks("mesh", h) = {}
        /\ nswaps = 1

\* --------------------------------------------------------------------- C23
\* The producers between the registry block of a delete that removed (k, h)
\* and its push.
DeletesInFlight(k, h) ==
    {p \in Producers : pc[p] \in {"front", "lock", "append"}
                       /\ call[p].op = "delete" /\ call[p].k = k /\ call[p].h = h}

C24_LiveIffCounted ==
    \A k \in Kinds :
        /\ \A h \in DOMAIN regs[k].slots : regs[k].slots[h].live <=> regs[k].slots[h].rc > 0
        /\ \A h1, h2 \in RegLive(regs[k]) :
              (regs[k].slots[h1].loc = regs[k].slots[h2].loc /\ regs[k].slots[h1].loc # Unique)
                 => h1 = h2
        /\ \A loc \in SharedLocations :
              LookupFrom(k, loc) # 0
                 => /\ Alive(k, LookupFrom(k, loc))
                    /\ regs[k].slots[LookupFrom(k, loc)].loc = loc

\* A shared Location maps to a second slot, created after the first one was
\* deleted and reclaimed by a tick.
C24_Witness ==
    \E k \in SharedKinds, loc \in SharedLocations :
        /\ LookupFrom(k, loc) = 2
        /\ regs[k].slots[2].rc = 1
        /\ 1 \notin DOMAIN regs[k].slots
        /\ dret = Ok("advance", 0)

\* --------------------------------------------------------------------- C25
\* The tokens that the pre-tasks and ordered tasks of Frame f carry, by the
\* list and position of the task and the position of the token in it.
TokenSites(f) ==
    {<<"pre", i, j>> : i \in DOMAIN f.pre, j \in 1..2} \cup {<<"tasks", i, 1>> : i \in DOMAIN f.tasks}

HasToken(f, site) ==
    IF site[1] = "pre"
    THEN site[3] \in DOMAIN f.pre[site[2]].ptrs /\ f.pre[site[2]].ptrs[site[3]] # <<>>
    ELSE f.tasks[site[2]].ptr.len > 0

TokenAt(f, site) ==
    IF site[1] = "pre" THEN f.pre[site[2]].ptrs[site[3]][1] ELSE f.tasks[site[2]].ptr

\* The token lies within the arena and names the bytes staged for it.
InArena(f, ptr) ==
    /\ ptr.off + ptr.len <= Len(f.buf)
    /\ BufAsSlice(f.buf, ptr) = Bytes(ptr.len)

Disjoint(a, b) == a.off + a.len <= b.off \/ b.off + b.len <= a.off

\* C25: in every reachable state each buffer token stored in a pre-task or an
\* ordered task of a Frame lies within that Frame's arena and names bytes that
\* were staged for it, and for no other token, since the arena was last
\* cleared, also when swap_frames ran between the staging and the push.
C25_TokensInOwnArena ==
    \A f \in FrameIds :
        \A a \in TokenSites(frames[f]) :
            HasToken(frames[f], a) =>
                /\ InArena(frames[f], TokenAt(frames[f], a))
                /\ \A b \in TokenSites(frames[f]) :
                      (HasToken(frames[f], b) /\ b # a)
                          => Disjoint(TokenAt(frames[f], a), TokenAt(frames[f], b))

\* swap_frames ran after a create_mesh had staged its two spans and before
\* its push: the call holds the guard of the Frame that is now back, where
\* its bytes are, and the tokens it is about to push; another call has pushed
\* a task with a token into the new front Frame.
C25_Witness ==
    \E p \in Producers :
        /\ pc[p] = "push" /\ call[p].op = "create_mesh"
        /\ guard[p] = BackIndex
        /\ Len(frames[BackIndex].buf) = 2 /\ frames[BackIndex].pre = <<>>
        /\ call[p].spans = << <<[off |-> 0, len |-> 1]>>, <<[off |-> 1, len |-> 1]>> >>
        /\ frames[FrontIndex].tasks # <<>> /\ frames[FrontIndex].buf # <<>>

\* --------------------------------------------------------------------- C26
\* The front Frame of out is the front Frame of now with one more task at the
\* end of the given list, task t on handle h carrying a token for n staged
\* bytes; the other lists and the back Frame are as they were.
PushedLast(out, list, t, h, n) ==
    LET f == frames[FrontIndex]
        g == out.frames[FrontIndex]
        new == g[list][Len(g[list])]
        ptr == IF list = "pre" THEN new.ptrs[1][1] ELSE new.ptr
    IN  /\ out.res.tag = "Ok"
        /\ Len(g[list]) = Len(f[list]) + 1
        /\ SubSeq(g[list], 1, Len(f[list])) = f[list]
        /\ new.t = t /\ new.h = h
        /\ ptr.len = n /\ InArena(g, ptr)
        /\ \A l \in {"pre", "tasks", "post"} \ {list} : g[l] = f[l]
        /\ out.frames[BackIndex] = frames[BackIndex]

\* In the dispatch of Frame g the device call of its last pre-task comes
\* before the flush call, which hands over every ordered task of g.
LastPreBeforeFlush(g) ==
    LET d == Dispatch(g, NumDeviceCalls(g))
        i == Len(g.pre)
    IN  /\ d.ok
        /\ SameTask(d.log[i], g.pre[i], "update")
        /\ d.log[i + 1].phase = "flush" /\ d.log[i + 1].tasks = g.tasks

\* In the device's execution order the last task of the list comes after
\* every task whose key is not greater and before every task of greater key.
LastAtKeyPosition(tasks) ==
    LET ord == DeviceOrder(tasks)
        new == tasks[Len(tasks)]
    IN  \E a \in DOMAIN ord :
            /\ ord[a] = Len(tasks)
            /\ \A b \in DOMAIN ord : b < a => ~KeyLess(new, tasks[ord[b]])
            /\ \A b \in DOMAIN ord : b > a => KeyLess(new, tasks[ord[b]])

\* C26: update_vertex_buffer, update_index_buffer and update_texture push
\* exactly one pre-task, which the device applies before every ordered task
\* of the same Frame, also of those submitted before the update was called;
\* the same update through submit pushes exactly one ordered task with the
\* given (surface, order) key, applied at that key's position.
C26_UpdatePlacement ==
    ~FrontPoisoned =>
        \A h \in Handles, n \in 1..MaxBytes :
            /\ \A t \in BufferTasks :
                  Alive("mesh", h) =>
                     \E out \in {UpdateBufferOutcome(t, h, n)} :
                         /\ PushedLast(out, "pre", t, h, n)
                         /\ LastPreBeforeFlush(out.frames[FrontIndex])
            /\ Ready(h) =>
                  \E out \in {UpdateTextureOutcome(h, n)} :
                      /\ PushedLast(out, "pre", "UpdateTexture", h, n)
                      /\ LastPreBeforeFlush(out.frames[FrontIndex])
            /\ \A s \in Handles, o \in OrderKeys, t \in BufferTasks :
                  (Alive("surface", s) /\ Alive("mesh", h)) =>
                     \E out \in {SubmitUpdateBufferOutcome(t, s, o, h, n)} :
                         LET new == out.frames[FrontIndex].tasks[Len(out.frames[FrontIndex].tasks)]
                         IN  /\ PushedLast(out, "tasks", t, h, n)
                             /\ new.s = s /\ new.o = o
                             /\ LastAtKeyPosition(out.frames[FrontIndex].tasks)

\* update_vertex_buffer was the last call, made after ordered tasks had been
\* submitted to the same Frame; the tick that followed applied the update
\* before it flushed those tasks.
C26_Witness ==
    /\ ret[Caller] = Ok("update_buffer", 0)
    /\ dret = Ok("advance", 0)
    /\ \E i \in DOMAIN devLog, j \in FlushAt :
          /\ devLog[i].call = "update" /\ devLog[i].ok
          /\ i < j /\ devLog[j].tasks # <<>>
          /\ snap.pre[i].t = "UpdateVertexBuffer"

\* ------------------------------------------------------------------ C27
\* The device calls of the last dispatch that begin a pre-task, and those of
\* the post-tasks.
IsTaskStart(c) == c.phase = "pre" /\ c.slot = 0
IsPostCall(c) == c.phase = "post"
TaskStarts == SelectSeq(devLog, IsTaskStart)
PostStarts == SelectSeq(devLog, IsPostCall)
\* The position in devLog of the last task start at or before position i.
StartBefore(i) ==
    CHOOSE j \in 1..i : IsTaskStart(devLog[j]) /\ \A m \in (j + 1)..i : ~IsTaskStart(devLog[m])

\* C27: within one dispatch the pre-tasks are executed in the order they were
\* appended and so are the post-tasks: the j-th task started is the j-th task
\* of the list the Frame held when dispatch began, every further device call
\* of a task follows the task's own first call before the next task starts,
\* and a dispatch that succeeded has served every task of both lists.
C27_TasksInAppendOrder ==
    /\ Len(TaskStarts) <= Len(snap.pre)
    /\ \A j \in DOMAIN TaskStarts :
          SameTask(TaskStarts[j], snap.pre[j], PreCallName(snap.pre[j].t))
    /\ \A i \in DOMAIN devLog :
          devLog[i].phase = "pre" /\ devLog[i].slot > 0 =>
              /\ \E j \in 1..i : IsTaskStart(devLog[j])
              /\ devLog[StartBefore(i)].h = devLog[i].h
              /\ devLog[StartBefore(i)].k = devLog[i].k
    /\ Len(PostStarts) <= Len(snap.post)
    /\ \A j \in DOMAIN PostStarts :
          SameTask(PostStarts[j], snap.post[j], PostCallName(snap.post[j].t))
    /\ \A i, j \in DOMAIN devLog :
          devLog[i].phase = "pre" /\ devLog[j].phase = "post" => i < j
    /\ (devLog # <<>> /\ dret.tag = "Ok") =>
          Len(TaskStarts) = Len(snap.pre) /\ Len(PostStarts) = Len(snap.post)

\* A dispatch that served a framebuffer with two attachments and then a render
\* buffer, and after the flush deleted them in the order the deletes were made.
C27_Witness ==
    /\ dret.tag = "Ok"
    /\ Len(devLog) = 7
    /\ Len(snap.pre) = 2 /\ Len(snap.post) = 2
    /\ devLog[1].call = "create_framebuffer"
    /\ devLog[2].slot > 0 /\ devLog[3].slot > 0
    /\ devLog[4].call = "create_render_buffer"
    /\ devLog[5].phase = "flush"
    /\ devLog[6].call = "delete_render_buffer"
    /\ devLog[7].call = "delete_framebuffer"

\* ------------------------------------------------------------------ C28
\* The positions in devLog of the device calls made for framebuffer h.
CallsOf(h) ==
    {i \in DOMAIN devLog :
        devLog[i].phase = "pre" /\ devLog[i].k = "framebuffer" /\ devLog[i].h = h}
Present(att) == {s \in DOMAIN att : att[s] # <<>>}
FirstOf(P) == CHOOSE i \in P : \A j \in P : i <= j
LastOf(P) == CHOOSE i \in P : \A j \in P : j <= i

\* C28: for every CreateFrameBuffer pre-task the dispatch reached, the device
\* calls for its handle are one unbroken run that begins with
\* create_framebuffer; each later call of the run attaches what the setup
\* holds in one of its non-empty slots, the slots come in increasing index
\* with no non-empty slot passed over, a run without failure attaches every
\* non-empty slot, and a failed call (the creation or an attachment) is the
\* last call of the run and of the dispatch.
C28_FrameBufferThenAttachments ==
    \A j \in DOMAIN snap.pre :
        snap.pre[j].t = "CreateFrameBuffer" /\ CallsOf(snap.pre[j].h) # {} =>
            LET att == snap.pre[j].att
                P == CallsOf(snap.pre[j].h)
                first == FirstOf(P)
                rest == P \ {first}
            IN  /\ P = first..LastOf(P)
                /\ devLog[first].call = "create_framebuffer" /\ devLog[first].slot = 0
                /\ \A i \in rest :
                      /\ devLog[i].slot \in Present(att)
                      /\ devLog[i].call = AttachCallName(att[devLog[i].slot][1].kind)
                      /\ devLog[i].with = att[devLog[i].slot][1].h
                      /\ \A s \in Present(att) :
                            s < devLog[i].slot =>
                                \E i0 \in rest : i0 < i /\ devLog[i0].slot = s
                /\ \A i, i2 \in rest : i < i2 => devLog[i].slot < devLog[i2].slot
                /\ (\A i \in P : devLog[i].ok) =>
                      {devLog[i].slot : i \in rest} = Present(att)
                /\ \A i \in P : ~devLog[i].ok => i = LastOf(P) /\ i = Len(devLog)

\* One framebuffer got its texture at slot 1 and its render buffer at slot 3,
\* the empty slot 2 skipped; the next one was created, and its first
\* attachment (slot 2, slot 1 being empty) failed, which ended the dispatch
\* before slot 3.
C28_Witness ==
    /\ Len(devLog) = 5
    /\ Len(snap.pre) = 2
    /\ snap.pre[1].att = <<TextureAt(1), NoAttachment, RenderBufferAt(2)>>
    /\ snap.pre[2].att = <<NoAttachment, RenderBufferAt(1), TextureAt(1)>>
    /\ devLog[1].call = "create_framebuffer" /\ devLog[1].ok
    /\ devLog[2].call = "update_framebuffer_with_texture" /\ devLog[2].slot = 1 /\ devLog[2].ok
    /\ devLog[3].call = "update_framebuffer_with_renderbuffer" /\ devLog[3].slot = 3 /\ devLog[3].ok
    /\ devLog[4].call = "create_framebuffer" /\ devLog[4].ok
    /\ devLog[5].call = "update_framebuffer_with_renderbuffer" /\ devLog[5].slot = 2
    /\ ~devLog[5].ok
    /\ dret.tag = "Err"

\* ------------------------------------------------------------------ C29
\* What each creator of a unique resource would do, called in this state.
UniqueCreates ==
    { [k |-> "surface", t |-> "CreateSurface",
       out |-> CreateUniqueOutcome("create_surface", "surface")],
      [k |-> "render_buffer", t |-> "CreateRenderBuffer", out |-> CreateRenderBufferOutcome],
      [k |-> "texture", t |-> "CreateRenderTexture", out |-> CreateRenderTextureOutcome] }
    \cup { [k |-> "framebuffer", t |-> "CreateFrameBuffer",
            out |-> CreateFrameBufferOutcome(setup)] : setup \in FrameBufferSetups }

\* C29: every call of create_surface, create_framebuffer, create_render_buffer
\* and create_render_texture returns a handle its registry never issued
\* before (so different from every live handle), registers it with reference
\* count 1 without touching any other slot, and appends exactly one creation
\* pre-task for it to the front Frame; every handle so issued has been
\* returned by one call only and has one creation pre-task, a live one has
\* count 1 and one delete call removes it and pushes its one delete
\* post-task, and a handle torn down took exactly one delete post-task.
C29_UniqueNeverShared ==
    /\ \A c \in UniqueCreates :
          LET h == c.out.res.h
              r == c.out.regs[c.k]
              f == c.out.frames[FrontIndex]
          IN  /\ c.out.res.tag = "Ok"
              /\ h \notin DOMAIN regs[c.k].slots
              /\ RegIsAlive(r, h) /\ r.slots[h].rc = 1
              /\ \A h2 \in DOMAIN regs[c.k].slots : r.slots[h2] = regs[c.k].slots[h2]
              /\ DOMAIN r.slots = DOMAIN regs[c.k].slots \cup {h}
              /\ \A k2 \in Kinds \ {c.k} : c.out.regs[k2] = regs[k2]
              /\ Len(f.pre) = Len(frames[FrontIndex].pre) + 1
              /\ SubSeq(f.pre, 1, Len(f.pre) - 1) = frames[FrontIndex].pre
              /\ f.pre[Len(f.pre)].t = c.t /\ f.pre[Len(f.pre)].k = c.k
              /\ f.pre[Len(f.pre)].h = h
              /\ f.tasks = frames[FrontIndex].tasks /\ f.post = frames[FrontIndex].post
              /\ c.out.frames[BackIndex] = frames[BackIndex]
    /\ \A k \in UniqueKinds : \A h \in DOMAIN regs[k].slots :
          /\ life[k][h].creates = 1 /\ life[k][h].pres = 1
          /\ regs[k].slots[h].live =>
                /\ regs[k].slots[h].rc = 1 /\ life[k][h].posts = 0
                /\ \E out \in {DeleteOutcome(k, h)} :
                      /\ ~RegIsAlive(out.regs[k], h)
                      /\ out.frames[FrontIndex].post =
                            Append(frames[FrontIndex].post, PostTask(DeleteTaskName(k), k, h))
          /\ ~regs[k].slots[h].live => life[k][h].posts = 1

\* Two framebuffers were created, with two different handles; one delete
\* call tore the first down while the second is live with count 1, next to
\* a render texture.
C29_Witness ==
    /\ DOMAIN regs["framebuffer"].slots = {1, 2}
    /\ ~RegIsAlive(regs["framebuffer"], 1) /\ RegIsAlive(regs["framebuffer"], 2)
    /\ life["framebuffer"][1].deletes = 1 /\ life["framebuffer"][1].posts = 1
    /\ regs["framebuffer"].slots[2].rc = 1
    /\ RegIsAlive(regs["texture"], 1) /\ life["texture"][1].pres = 1

\* ------------------------------------------------------------------ C30
\* C30: the role index is always 0 or 1 and front and back are always the
\* two different Frames; a swap_frames step makes the front Frame the back
\* one and the back Frame the front one and leaves every task list and arena
\* as it was; a swap that follows a swap with no advance in between gives
\* the front role back to the Frame that had it before the first of the two.
C30_RolesToggle ==
    /\ [](/\ idx \in {0, 1}
          /\ FrontIndex # BackIndex
          /\ {FrontIndex, BackIndex} = FrameIds)
    /\ [][SwapStep =>
             /\ frames' = frames
             /\ FrontIndex' = BackIndex /\ BackIndex' = FrontIndex
             /\ (nswaps >= 1 /\ cadence = "swapped") => FrontIndex' = hist.wasFront]_vars

\* Two swaps were made back to back while the front Frame held tasks: the
\* Frame is front again, with its tasks.
C30_Witness ==
    /\ nswaps = 2 /\ nticks = 0 /\ cadence = "irregular"
    /\ idx = 0 /\ hist.wasFront = 1
    /\ frames[FrontIndex].pre # <<>>
    /\ 0 \in hist.born[FrontIndex]

\* ------------------------------------------------------------------ C31
\* A step that is one call of advance which found the window and read it.
ReadingTick == AdvanceStep /\ tickLog' # <<>>

\* C31: for every window that advance may find in this state, it calls
\* window.resize, with the dimensions it read, exactly when those dimensions
\* or the pixel density differ from the remembered ones, and afterwards
\* remembers the values read; whatever happens later in the tick, the shared
\* dimensions become the pair of sizes read. The remembered dimensions are
\* those read by the last tick that found the window, and on every such tick
\* a resize call was made exactly when a remembered value changed.
C31_ResizeOnChange ==
    /\ [](/\ \A w \in HidpiWindows :
                ~Gone(w) =>
                    \E out \in {ResizeOutcome(w)} :
                        /\ (out.resized # <<>>) <=>
                              (w.dimensions[1] # last.dimensions \/ w.hidpi # last.hidpi)
                        /\ out.resized \in {<<>>, w.dimensions}
                        /\ out.last = [dimensions |-> w.dimensions[1], hidpi |-> w.hidpi]
                        /\ \A fail \in AdvanceFailures :
                              AdvanceOutcome(w, fail, 0).dimensions =
                                  <<w.dimensions[1], w.dimensions_in_pixels[1]>>
          /\ last.dimensions = dimensions[1]
          /\ last.hidpi \in HidpiFactors)
    /\ [][ReadingTick =>
             /\ (resized' # <<>>) <=> (last' # last)
             /\ resized' \in {<<>>, <<dimensions'[1]>>}
             /\ last'.dimensions = dimensions'[1]]_vars

\* The first tick found a larger window of another density and resized; the
\* next tick read the same values, made no resize call and returned Ok, the
\* shared dimensions holding the sizes read.
C31_Witness ==
    /\ nticks = 2
    /\ dret.tag = "Ok" /\ tickLog # <<>>
    /\ resized = <<>>
    /\ last = [dimensions |-> 2, hidpi |-> 2]
    /\ dimensions = <<2, 1>>

\* ------------------------------------------------------------------ C32
\* C32: no interleaving of producer calls, swap_frames and advance ends in a
\* wait that is never served: provided every thread inside a call keeps being
\* scheduled, every thread is outside its calls again and again, so a call in
\* progress (a producer past the entry of update_texture or submit_drawcall,
\* the driver inside swap_frames or advance) always ends. A call ends by
\* returning or by unwinding with a panic (the uniform lookup of line 235,
\* or lock().unwrap() on the Frame Mutex that panic has poisoned), which ends
\* its thread; no call unwinds unless that panic has happened.
C32_EveryCallReturns ==
    /\ \A p \in Producers : []<>(pc[p] \in {"idle", "dead"})
    /\ []<>(dpc \in {"idle", "dead"})
    /\ []((dpc = "dead" \/ \E p \in Producers : pc[p] = "dead") => poisoned # {})

\* Three threads wait in a row: advance waits for the textures' write guard,
\* which the reader in update_texture keeps while it waits for the front
\* Frame, which the thread in submit_drawcall holds before its shaders read.
C32_Witness ==
    /\ dpc = "reclaim_textures"
    /\ pc[1] = "ut_lock" /\ 1 \in Readers("texture")
    /\ pc[2] = "dc_shaders" /\ guard[2] = call[1].f

\* --------------------------------------------------------------------- C33
\* A draw call that passes every check of submit_drawcall in the current
\* state: live surface, mesh and shader, every uniform declared by the shader
\* with the supplied type.
ValidDrawcall(s, dc) ==
    /\ Alive("surface", s) /\ Alive("mesh", dc.mesh) /\ Alive("shader", dc.shader)
    /\ \A i \in DOMAIN dc.uniforms :
          /\ dc.uniforms[i][1] \in DOMAIN RegGet(regs["shader"], dc.shader).uniform_variables
          /\ RegGet(regs["shader"], dc.shader).uniform_variables[dc.uniforms[i][1]]
                = dc.uniforms[i][2]

Appended(out) ==
    /\ out.res.tag = "Ok"
    /\ Len(out.frames[FrontIndex].tasks) = Len(frames[FrontIndex].tasks) + 1

\* The pipeline is usable: no Frame lock is held or poisoned, no thread is
\* left holding a guard, and every valid draw call made now succeeds and
\* appends its task.
PipelineUsable ==
    /\ poisoned = {}
    /\ \A t \in Threads : guard[t] = NoFrame
    /\ idxReaders = {}
    /\ \A s \in Handles, dc \in DrawCalls :
          ValidDrawcall(s, dc) => Appended(SubmitDrawcallOutcome(s, 3, dc))

\* C33: after a facade call that failed validation (dead handle, undeclared
\* uniform name, uniform type mismatch, oversized mesh bytes, bad shader
\* setup) the Frame and registry locks are free and usable and a following
\* valid call succeeds and appends its task.
C33_FailedCallLeavesPipelineUsable ==
    ret[Caller].tag \in {"Err", "Panic"} => PipelineUsable

\* The same for the calls that return their error: in every state in which
\* no call has panicked the pipeline is usable.
UsableUnlessPanicked ==
    (\A p \in Producers : pc[p] # "dead") /\ dpc # "dead" => PipelineUsable

\* --------------------------------------------------------------------- C34
\* What a factory call made now would return.
FactoryReturnsLookedUp(name) ==
    LookupFrom(FactoryKind(name), FactoryLocation(name)) # 0
        => \E out \in {FactoryOutcome(name)} :
              /\ out.res.tag = "Ok"
              /\ out.res.h = LookupFrom(FactoryKind(name), FactoryLocation(name))
              /\ out.regs = regs
              /\ out.frames = frames

\* C34: however often the built-in factories are called in sequence, every
\* call after the first returns the handle of the first and changes nothing;
\* a resource they returned has had exactly one creation pre-task pushed and
\* a reference count of 1 until its first delete; one delete_shader or
\* delete_mesh tears it down: the slot is dead and its one delete post-task
\* is pushed.
C34_FactoriesShareOneResource ==
    /\ \A name \in Factories : FactoryReturnsLookedUp(name)
    /\ \A k \in {"shader", "mesh"}, h \in Handles :
          life[k][h].creates > 0 =>
              /\ life[k][h].pres = 1
              /\ life[k][h].deletes = 0
                    => /\ RegIsAlive(regs[k], h)
                       /\ regs[k].slots[h].rc = 1
                       /\ life[k][h].posts = 0
              /\ life[k][h].deletes > 0
                    => /\ ~RegIsAlive(regs[k], h)
                       /\ life[k][h].posts = 1

\* Three factory calls returned handle 1 and one delete tore it down.
C34_Witness ==
    \E k \in {"shader", "mesh"} :
        /\ life[k][1].creates = 3
        /\ life[k][1].deletes = 1
        /\ ~RegIsAlive(regs[k], 1)
====
